---- MODULE Spec2Model ----
(***************************************************************************)
(* The incremental stream parsers of the provider adaptation layer:        *)
(* OpenAIProvider.parseOpenAIStream and                                    *)
(* AnthropicProvider.parseAnthropicStream, with the byte decoding, line    *)
(* buffering, JSON decoding and tool-call accumulation they perform, and   *)
(* OpenAIProvider.convertOpenAIToGeminiResponse for single-shot responses. *)
(*                                                                         *)
(* A JavaScript string is a sequence of code units, each a one-character   *)
(* TLA+ string ("U+00E9" and "U+FFFD" name the two non-ASCII code units    *)
(* of the model).  A byte is the same one-character string for ASCII and   *)
(* "C3" / "A9" for the two bytes of the UTF-8 encoding of U+00E9.          *)
(* An optional value (undefined | T) is <<>> or <<value>>.                 *)
(***************************************************************************)
EXTENDS Integers, Sequences, FiniteSets, TLC

VARIABLES
  vendor,           \* which parser runs: "openai" or "anthropic"
  hasBody,          \* response.body is present
  pc,               \* "new" (not constructed), "idle", "awaiting" (fetch),
                    \* "body" (awaiting the body), "start", "reading",
                    \* "done" (ended or resolved), "failed" (threw),
                    \* "returned" (the consumer stopped)
  wire,             \* bytes of the response body not yet read
  pending,          \* bytes the streaming TextDecoder holds back
  buffer,           \* let buffer
  currentToolCall,  \* let currentToolCall (parseOpenAIStream)
  currentToolUse,   \* let currentToolUse (parseAnthropicStream)
  finalUsage,       \* let finalUsage (parseAnthropicStream)
  out,              \* the partial responses yielded so far
  released,         \* reader.releaseLock() has run
  reads,            \* number of reads that returned a value
  lastLine,         \* name of the wire line delivered by the last read
  usageSeen,        \* history: some event on the wire carried usage
  wireArgs,         \* history: argument text sent for the call last started
  body,             \* history: all the bytes of a body fixed in advance
  slicing,          \* history: the argument fragments of such a body
  single,           \* convertOpenAIToGeminiResponse's input and result
  yielded,          \* the generator is suspended at a yield of the last read
  remaining,        \* the lines of that read from the suspended one on
  releaseLockCalls, \* number of calls of reader.releaseLock()
  error,            \* the failure surfaced to the caller or consumer, if any
  adapter,          \* the vendor the adapter was built for (config.provider)
  hasKey,           \* config.apiKey is a non-empty string
  requests,         \* number of HTTP requests issued (calls of fetch)
  call,             \* the calls on the adapter: inputs, progress and outcome
  config,           \* the ProviderConfig given to the router's constructor
  request,          \* the request and the vendor request body built from it
  streams,          \* the streams parsed concurrently on one adapter
  sanitizer         \* sanitizeParameters: the schema graph and the traversal

vars == <<vendor, hasBody, pc, wire, pending, buffer, currentToolCall,
          currentToolUse, finalUsage, out, released, reads, lastLine,
          usageSeen, wireArgs, body, slicing, single, yielded, remaining,
          releaseLockCalls, error, adapter, hasKey, requests, call,
          config, request, streams, sanitizer>>

\* The variables of the calls on an adapter, of its concurrent streams and of
\* the schema sanitizer.
adapterVars ==
  <<adapter, hasKey, requests, call, config, request, streams, sanitizer>>

\* Bounds of the model.
MaxReads == 4

None == <<>>
Some(x) == <<x>>

Min(S) == CHOOSE x \in S : \A y \in S : x <= y
Max(S) == CHOOSE x \in S : \A y \in S : x >= y

\* JavaScript truthiness of an optional atomic string / optional code-unit string.
Truthy(o) == o # None /\ o[1] # ""
TruthyChars(o) == o # None /\ o[1] # <<>>

----------------------------------------------------------------------------
\* String.prototype methods used by the parsers.

IsSpace(c) == c \in {" ", "\t", "\r", "\n"}

trim(s) ==
  LET keep == {i \in 1..Len(s) : ~IsSpace(s[i])}
  IN IF keep = {} THEN <<>> ELSE SubSeq(s, Min(keep), Max(keep))

startsWith(s, p) == Len(s) >= Len(p) /\ SubSeq(s, 1, Len(p)) = p

slice(s, n) == SubSeq(s, n + 1, Len(s))

\* s.split('\n'): the segments between newlines, k + 1 of them for k newlines.
split(s) ==
  LET nl == {i \in 1..Len(s) : s[i] = "\n"}
      k == Cardinality(nl)
      at(j) == IF j = 0 THEN 0
               ELSE IF j = k + 1 THEN Len(s) + 1
               ELSE CHOOSE i \in nl : Cardinality({x \in nl : x <= i}) = j
  IN [j \in 1..(k + 1) |-> SubSeq(s, at(j - 1) + 1, at(j) - 1)]

----------------------------------------------------------------------------
\* TextEncoder / TextDecoder (UTF-8) over the byte alphabet of the model.

LeadByte == "C3"
ContByte == "A9"

\* new TextEncoder().encode(s), by halves.
RECURSIVE TextEncoder(_)
TextEncoder(s) ==
  IF s = <<>> THEN <<>>
  ELSE IF Len(s) = 1
  THEN (IF s[1] = "U+00E9" THEN <<LeadByte, ContByte>> ELSE s)
  ELSE TextEncoder(SubSeq(s, 1, Len(s) \div 2))
       \o TextEncoder(SubSeq(s, Len(s) \div 2 + 1, Len(s)))

NotSkipped(c) == c # ""

\* decode(bytes) of a fresh decoder: an incomplete or stray byte of a
\* multi-byte sequence becomes U+FFFD.
decodeBytes(bytes) ==
  LET n == Len(bytes)
      unit(i) ==
        IF bytes[i] = LeadByte
        THEN (IF i < n /\ bytes[i + 1] = ContByte THEN "U+00E9" ELSE "U+FFFD")
        ELSE IF bytes[i] = ContByte
        THEN (IF i > 1 /\ bytes[i - 1] = LeadByte THEN "" ELSE "U+FFFD")
        ELSE bytes[i]
  IN IF n = 0 THEN <<>> ELSE SelectSeq([i \in 1..n |-> unit(i)], NotSkipped)

\* decoder.decode(value, { stream: true }): a trailing lead byte is held back
\* and prefixed to the next chunk.
decodeStream(held, bytes) ==
  LET all == held \o bytes
      n == Len(all)
      hold == n > 0 /\ all[n] = LeadByte
  IN [text |-> decodeBytes(IF hold THEN SubSeq(all, 1, n - 1) ELSE all),
      pending |-> IF hold THEN <<LeadByte>> ELSE <<>>]

\* parseOpenAIStream keeps one decoder in stream mode; parseAnthropicStream
\* decodes every chunk with a new TextDecoder.
decode(v, held, bytes) ==
  IF v = "openai" THEN decodeStream(held, bytes)
  ELSE [text |-> decodeBytes(bytes), pending |-> <<>>]

----------------------------------------------------------------------------
\* JSON texts on the wire.

\* The escapes JSON.stringify puts in a string literal, by halves.
RECURSIVE JSONescape(_)
JSONescape(s) ==
  IF s = <<>> THEN <<>>
  ELSE IF Len(s) = 1
  THEN (IF s[1] \in {"\"", "\\"} THEN <<"\\", s[1]>> ELSE s)
  ELSE JSONescape(SubSeq(s, 1, Len(s) \div 2))
       \o JSONescape(SubSeq(s, Len(s) \div 2 + 1, Len(s)))

\* data: 
DataPrefix ==
  <<"d","a","t","a",":"," ">>

\* [DONE]
DoneSentinel ==
  <<"[","D","O","N","E","]">>

\* {"choices":[{"delta":
MalformedPayload ==
  <<"{","\"","c","h","o","i","c","e","s","\"",":","[","{","\"","d","e","l",
     "t","a","\"",":">>

\* : keep-alive
CommentLine ==
  <<":"," ","k","e","e","p","-","a","l","i","v","e">>

\* event: content_block_delta
EventLine ==
  <<"e","v","e","n","t",":"," ","c","o","n","t","e","n","t","_","b","l","o",
     "c","k","_","d","e","l","t","a">>

\* {"choices":[{"index":0,"delta":{"content":"
OpenAITextPre ==
  <<"{","\"","c","h","o","i","c","e","s","\"",":","[","{","\"","i","n","d",
     "e","x","\"",":","0",",","\"","d","e","l","t","a","\"",":","{","\"","c",
     "o","n","t","e","n","t","\"",":","\"">>

\* "}}]}
OpenAITextPost ==
  <<"\"","}","}","]","}">>

\* "}}],"usage":{"prompt_tokens":10,"completion_tokens":2,"total_tokens":12}}
OpenAITextUsagePost ==
  <<"\"","}","}","]",",","\"","u","s","a","g","e","\"",":","{","\"","p","r",
     "o","m","p","t","_","t","o","k","e","n","s","\"",":","1","0",",","\"","c",
     "o","m","p","l","e","t","i","o","n","_","t","o","k","e","n","s","\"",":",
     "2",",","\"","t","o","t","a","l","_","t","o","k","e","n","s","\"",":","1",
     "2","}","}">>

\* {"choices":[{"index":0,"delta":{"tool_calls":[{"id":"c1","function":{"name":"f","arguments":""}}]}}]}
OpenAIStartText ==
  <<"{","\"","c","h","o","i","c","e","s","\"",":","[","{","\"","i","n","d",
     "e","x","\"",":","0",",","\"","d","e","l","t","a","\"",":","{","\"","t",
     "o","o","l","_","c","a","l","l","s","\"",":","[","{","\"","i","d","\"",
     ":","\"","c","1","\"",",","\"","f","u","n","c","t","i","o","n","\"",":",
     "{","\"","n","a","m","e","\"",":","\"","f","\"",",","\"","a","r","g","u",
     "m","e","n","t","s","\"",":","\"","\"","}","}","]","}","}","]","}">>

\* {"choices":[{"index":0,"delta":{"tool_calls":[{"function":{"name":"f","arguments":""}}]}}]}
OpenAIStartNoIdText ==
  <<"{","\"","c","h","o","i","c","e","s","\"",":","[","{","\"","i","n","d",
     "e","x","\"",":","0",",","\"","d","e","l","t","a","\"",":","{","\"","t",
     "o","o","l","_","c","a","l","l","s","\"",":","[","{","\"","f","u","n","c",
     "t","i","o","n","\"",":","{","\"","n","a","m","e","\"",":","\"","f","\"",
     ",","\"","a","r","g","u","m","e","n","t","s","\"",":","\"","\"","}","}",
     "]","}","}","]","}">>

\* {"choices":[{"index":0,"delta":{"tool_calls":[{"id":"c1","function":{"arguments":""}}]}}]}
OpenAIIdOnlyText ==
  <<"{","\"","c","h","o","i","c","e","s","\"",":","[","{","\"","i","n","d",
     "e","x","\"",":","0",",","\"","d","e","l","t","a","\"",":","{","\"","t",
     "o","o","l","_","c","a","l","l","s","\"",":","[","{","\"","i","d","\"",
     ":","\"","c","1","\"",",","\"","f","u","n","c","t","i","o","n","\"",":",
     "{","\"","a","r","g","u","m","e","n","t","s","\"",":","\"","\"","}","}",
     "]","}","}","]","}">>

\* {"choices":[{"index":0,"delta":{"tool_calls":[{"function":{"arguments":"
OpenAIFragPre ==
  <<"{","\"","c","h","o","i","c","e","s","\"",":","[","{","\"","i","n","d",
     "e","x","\"",":","0",",","\"","d","e","l","t","a","\"",":","{","\"","t",
     "o","o","l","_","c","a","l","l","s","\"",":","[","{","\"","f","u","n","c",
     "t","i","o","n","\"",":","{","\"","a","r","g","u","m","e","n","t","s",
     "\"",":","\"">>

\* "}}]}}]}
OpenAIFragPost ==
  <<"\"","}","}","]","}","}","]","}">>

\* {"choices":[{"index":0,"delta":{},"finish_reason":"tool_calls"}]}
OpenAIFinishToolText ==
  <<"{","\"","c","h","o","i","c","e","s","\"",":","[","{","\"","i","n","d",
     "e","x","\"",":","0",",","\"","d","e","l","t","a","\"",":","{","}",",",
     "\"","f","i","n","i","s","h","_","r","e","a","s","o","n","\"",":","\"",
     "t","o","o","l","_","c","a","l","l","s","\"","}","]","}">>

\* {"choices":[{"index":0,"delta":{},"finish_reason":"length"}]}
OpenAIFinishLengthText ==
  <<"{","\"","c","h","o","i","c","e","s","\"",":","[","{","\"","i","n","d",
     "e","x","\"",":","0",",","\"","d","e","l","t","a","\"",":","{","}",",",
     "\"","f","i","n","i","s","h","_","r","e","a","s","o","n","\"",":","\"",
     "l","e","n","g","t","h","\"","}","]","}">>

\* {"choices":[{"index":0,"delta":{}}]}
OpenAIEmptyDeltaText ==
  <<"{","\"","c","h","o","i","c","e","s","\"",":","[","{","\"","i","n","d",
     "e","x","\"",":","0",",","\"","d","e","l","t","a","\"",":","{","}","}",
     "]","}">>

\* {"choices":[],"usage":{"prompt_tokens":10,"completion_tokens":2,"total_tokens":12}}
OpenAIUsageOnlyText ==
  <<"{","\"","c","h","o","i","c","e","s","\"",":","[","]",",","\"","u","s",
     "a","g","e","\"",":","{","\"","p","r","o","m","p","t","_","t","o","k","e",
     "n","s","\"",":","1","0",",","\"","c","o","m","p","l","e","t","i","o","n",
     "_","t","o","k","e","n","s","\"",":","2",",","\"","t","o","t","a","l","_",
     "t","o","k","e","n","s","\"",":","1","2","}","}">>

\* {"type":"content_block_delta","delta":{"type":"text_delta","text":"
AnthropicTextPre ==
  <<"{","\"","t","y","p","e","\"",":","\"","c","o","n","t","e","n","t","_",
     "b","l","o","c","k","_","d","e","l","t","a","\"",",","\"","d","e","l","t",
     "a","\"",":","{","\"","t","y","p","e","\"",":","\"","t","e","x","t","_",
     "d","e","l","t","a","\"",",","\"","t","e","x","t","\"",":","\"">>

\* "}}
AnthropicTextPost ==
  <<"\"","}","}">>

\* {"type":"content_block_start","content_block":{"type":"tool_use","id":"t1","name":"f"}}
AnthropicStartText ==
  <<"{","\"","t","y","p","e","\"",":","\"","c","o","n","t","e","n","t","_",
     "b","l","o","c","k","_","s","t","a","r","t","\"",",","\"","c","o","n","t",
     "e","n","t","_","b","l","o","c","k","\"",":","{","\"","t","y","p","e",
     "\"",":","\"","t","o","o","l","_","u","s","e","\"",",","\"","i","d","\"",
     ":","\"","t","1","\"",",","\"","n","a","m","e","\"",":","\"","f","\"","}",
     "}">>

\* {"type":"content_block_start","content_block":{"type":"tool_use","name":"f"}}
AnthropicStartNoIdText ==
  <<"{","\"","t","y","p","e","\"",":","\"","c","o","n","t","e","n","t","_",
     "b","l","o","c","k","_","s","t","a","r","t","\"",",","\"","c","o","n","t",
     "e","n","t","_","b","l","o","c","k","\"",":","{","\"","t","y","p","e",
     "\"",":","\"","t","o","o","l","_","u","s","e","\"",",","\"","n","a","m",
     "e","\"",":","\"","f","\"","}","}">>

\* {"type":"content_block_start","content_block":{"type":"tool_use","id":"t1"}}
AnthropicStartNoNameText ==
  <<"{","\"","t","y","p","e","\"",":","\"","c","o","n","t","e","n","t","_",
     "b","l","o","c","k","_","s","t","a","r","t","\"",",","\"","c","o","n","t",
     "e","n","t","_","b","l","o","c","k","\"",":","{","\"","t","y","p","e",
     "\"",":","\"","t","o","o","l","_","u","s","e","\"",",","\"","i","d","\"",
     ":","\"","t","1","\"","}","}">>

\* {"type":"content_block_delta","delta":{"type":"input_json_delta","partial_json":"
AnthropicFragPre ==
  <<"{","\"","t","y","p","e","\"",":","\"","c","o","n","t","e","n","t","_",
     "b","l","o","c","k","_","d","e","l","t","a","\"",",","\"","d","e","l","t",
     "a","\"",":","{","\"","t","y","p","e","\"",":","\"","i","n","p","u","t",
     "_","j","s","o","n","_","d","e","l","t","a","\"",",","\"","p","a","r","t",
     "i","a","l","_","j","s","o","n","\"",":","\"">>

\* "}}
AnthropicFragPost ==
  <<"\"","}","}">>

\* {"type":"content_block_stop"}
AnthropicBlockStopText ==
  <<"{","\"","t","y","p","e","\"",":","\"","c","o","n","t","e","n","t","_",
     "b","l","o","c","k","_","s","t","o","p","\"","}">>

\* {"type":"message_delta","delta":{"stop_reason":"max_tokens"}}
AnthropicMessageDeltaText ==
  <<"{","\"","t","y","p","e","\"",":","\"","m","e","s","s","a","g","e","_",
     "d","e","l","t","a","\"",",","\"","d","e","l","t","a","\"",":","{","\"",
     "s","t","o","p","_","r","e","a","s","o","n","\"",":","\"","m","a","x","_",
     "t","o","k","e","n","s","\"","}","}">>

\* {"type":"message_delta","delta":{"stop_reason":"tool_use"},"usage":{"input_tokens":10,"output_tokens":2}}
AnthropicMessageDeltaUsageText ==
  <<"{","\"","t","y","p","e","\"",":","\"","m","e","s","s","a","g","e","_",
     "d","e","l","t","a","\"",",","\"","d","e","l","t","a","\"",":","{","\"",
     "s","t","o","p","_","r","e","a","s","o","n","\"",":","\"","t","o","o","l",
     "_","u","s","e","\"","}",",","\"","u","s","a","g","e","\"",":","{","\"",
     "i","n","p","u","t","_","t","o","k","e","n","s","\"",":","1","0",",","\"",
     "o","u","t","p","u","t","_","t","o","k","e","n","s","\"",":","2","}","}">>

\* {"type":"message_stop","usage":{"input_tokens":10,"output_tokens":2}}
AnthropicMessageStopText ==
  <<"{","\"","t","y","p","e","\"",":","\"","m","e","s","s","a","g","e","_",
     "s","t","o","p","\"",",","\"","u","s","a","g","e","\"",":","{","\"","i",
     "n","p","u","t","_","t","o","k","e","n","s","\"",":","1","0",",","\"","o",
     "u","t","p","u","t","_","t","o","k","e","n","s","\"",":","2","}","}">>

\* {"type":"ping"}
AnthropicPingText ==
  <<"{","\"","t","y","p","e","\"",":","\"","p","i","n","g","\"","}">>

\* {"a":1}
ArgsObjectText ==
  <<"{","\"","a","\"",":","1","}">>

\* {}
ArgsEmptyObjectText ==
  <<"{","}">>

----------------------------------------------------------------------------
\* JSON values.  A parsed argument object is the set of its <<key, literal>>
\* members (a scalar document has the key ""); the vendor events are records
\* with one field per property the parsers read.

EmptyObject == {}

\* Text contents of the model: "Hi", U+00E9, and U+FFFD U+FFFD (what a fresh
\* decoder makes of the two bytes of U+00E9 when they arrive in two chunks).
TextContents == {<<"H", "i">>, <<"U+00E9">>, <<"U+FFFD", "U+FFFD">>}

\* Argument fragments of the model: every non-empty slice of {"a":1}.
Fragments ==
  {SubSeq(ArgsObjectText, i, j) : i \in 1..Len(ArgsObjectText),
                                  j \in 1..Len(ArgsObjectText)} \ {<<>>}

\* The argument texts that are JSON documents, with their values.  No other
\* concatenation of the fragments a stream of the model carries is one.
ArgumentDocuments ==
  { <<ArgsObjectText, {<<"a", "1">>}>>,
    <<ArgsEmptyObjectText, EmptyObject>>,
    <<<<"1">>, {<<"", "1">>}>>,
    <<<<"\"", "a", "\"">>, {<<"", "\"a\"">>}>> }

Usage == [prompt_tokens |-> 10, completion_tokens |-> 2, total_tokens |-> 12]
AnthropicUsage == [input_tokens |-> 10, output_tokens |-> 2]

\* OpenAIStreamChunk: choice is chunk.choices?.[0] being present; the other
\* fields are those of the choice, its delta, and chunk.usage.
OpenAIChunk(content, tool_calls, finish_reason, usage) ==
  [choice |-> TRUE, index |-> 0, content |-> content, tool_calls |-> tool_calls,
   finish_reason |-> finish_reason, usage |-> usage]

NoChoiceChunk(usage) ==
  [choice |-> FALSE, index |-> 0, content |-> None, tool_calls |-> None,
   finish_reason |-> None, usage |-> usage]

ToolCallDelta(id, name, arguments) ==
  [id |-> id, function |-> Some([name |-> name, arguments |-> arguments])]

OpenAIDocuments ==
  { <<OpenAITextPre \o t \o OpenAITextPost,
      OpenAIChunk(Some(t), None, None, None)>> : t \in TextContents }
  \cup
  { <<OpenAITextPre \o t \o OpenAITextUsagePost,
      OpenAIChunk(Some(t), None, None, Some(Usage))>> : t \in TextContents }
  \cup
  { <<OpenAIFragPre \o JSONescape(f) \o OpenAIFragPost,
      OpenAIChunk(None, Some(<<ToolCallDelta(None, None, Some(f))>>), None, None)>>
      : f \in Fragments }
  \cup
  { <<OpenAIStartText,
      OpenAIChunk(None, Some(<<ToolCallDelta(Some("c1"), Some("f"), Some(<<>>))>>),
                  None, None)>>,
    <<OpenAIStartNoIdText,
      OpenAIChunk(None, Some(<<ToolCallDelta(None, Some("f"), Some(<<>>))>>),
                  None, None)>>,
    <<OpenAIIdOnlyText,
      OpenAIChunk(None, Some(<<ToolCallDelta(Some("c1"), None, Some(<<>>))>>),
                  None, None)>>,
    <<OpenAIFinishToolText, OpenAIChunk(None, None, Some("tool_calls"), None)>>,
    <<OpenAIFinishLengthText, OpenAIChunk(None, None, Some("length"), None)>>,
    <<OpenAIEmptyDeltaText, OpenAIChunk(None, None, None, None)>>,
    <<OpenAIUsageOnlyText, NoChoiceChunk(Some(Usage))>> }

\* AnthropicStreamChunk.
AnthropicChunk(type, content_block, delta, usage) ==
  [type |-> type, content_block |-> content_block, delta |-> delta, usage |-> usage]

ContentBlock(type, id, name) == [type |-> type, id |-> id, name |-> name]

Delta(type, text, partial_json, stop_reason) ==
  [type |-> type, text |-> text, partial_json |-> partial_json,
   stop_reason |-> stop_reason]

AnthropicDocuments ==
  { <<AnthropicTextPre \o t \o AnthropicTextPost,
      AnthropicChunk("content_block_delta", None,
                     Some(Delta(Some("text_delta"), Some(t), None, None)), None)>>
      : t \in TextContents }
  \cup
  { <<AnthropicFragPre \o JSONescape(f) \o AnthropicFragPost,
      AnthropicChunk("content_block_delta", None,
                     Some(Delta(Some("input_json_delta"), None, Some(f), None)), None)>>
      : f \in Fragments }
  \cup
  { <<AnthropicStartText,
      AnthropicChunk("content_block_start",
                     Some(ContentBlock("tool_use", Some("t1"), Some("f"))), None, None)>>,
    <<AnthropicStartNoIdText,
      AnthropicChunk("content_block_start",
                     Some(ContentBlock("tool_use", None, Some("f"))), None, None)>>,
    <<AnthropicStartNoNameText,
      AnthropicChunk("content_block_start",
                     Some(ContentBlock("tool_use", Some("t1"), None)), None, None)>>,
    <<AnthropicBlockStopText, AnthropicChunk("content_block_stop", None, None, None)>>,
    <<AnthropicMessageDeltaText,
      AnthropicChunk("message_delta", None,
                     Some(Delta(None, None, None, Some("max_tokens"))), None)>>,
    <<AnthropicMessageDeltaUsageText,
      AnthropicChunk("message_delta", None,
                     Some(Delta(None, None, None, Some("tool_use"))),
                     Some(AnthropicUsage))>>,
    <<AnthropicMessageStopText,
      AnthropicChunk("message_stop", None, None, Some(AnthropicUsage))>>,
    <<AnthropicPingText, AnthropicChunk("ping", None, None, None)>> }

\* JSON.parse restricted to the documents above: Some(value), or None when
\* JSON.parse throws a SyntaxError.
JSONparse(text, documents) ==
  IF \E d \in documents : d[1] = text
  THEN Some((CHOOSE d \in documents : d[1] = text)[2])
  ELSE None

----------------------------------------------------------------------------
\* Canonical partial responses.

TextPart(t) == [text |-> Some(t), functionCall |-> None]

FunctionCallPart(id, name, args) ==
  [text |-> None, functionCall |-> Some([id |-> id, name |-> name, args |-> args])]

Response(parts, finishReason, index, usageMetadata) ==
  [parts |-> parts, finishReason |-> finishReason, index |-> index,
   usageMetadata |-> usageMetadata]

\* OpenAIProvider.convertFinishReason: undefined for an unknown code.
convertFinishReason(reason) ==
  CASE reason = "stop" -> Some("STOP")
    [] reason = "length" -> Some("MAX_TOKENS")
    [] reason = "content_filter" -> Some("SAFETY")
    [] reason = "tool_calls" -> Some("STOP")
    [] OTHER -> None

\* AnthropicProvider.convertFinishReason.
anthropicConvertFinishReason(reason) ==
  CASE reason = "stop_sequence" -> "STOP"
    [] reason = "max_tokens" -> "MAX_TOKENS"
    [] reason = "end_turn" -> "STOP"
    [] reason = "tool_use" -> "STOP"
    [] OTHER -> "OTHER"

\* Fault seeded for C4: the argument text that fails to parse is kept as a raw
\* value instead of being replaced by the empty object.
parseToolCallArgumentsKeepRaw(argumentsStr) ==
  IF argumentsStr = <<>> \/ trim(argumentsStr) = <<>> THEN EmptyObject
  ELSE LET v == JSONparse(argumentsStr, ArgumentDocuments)
       IN IF v = None THEN {<<"raw", "text">>} ELSE v[1]

\* OpenAIProvider.parseToolCallArguments.
parseToolCallArguments(argumentsStr) ==
  IF argumentsStr = <<>> \/ trim(argumentsStr) = <<>> THEN EmptyObject
  ELSE LET v == JSONparse(argumentsStr, ArgumentDocuments)
       IN IF v = None THEN EmptyObject ELSE v[1]

\* The inner try of parseAnthropicStream's content_block_stop branch.
parseToolInput(inputJson) ==
  IF inputJson = <<>> THEN EmptyObject
  ELSE LET v == JSONparse(inputJson, ArgumentDocuments)
       IN IF v = None THEN EmptyObject ELSE v[1]

usageMetadata(u) ==
  [promptTokenCount |-> u.prompt_tokens, candidatesTokenCount |-> u.completion_tokens,
   totalTokenCount |-> u.total_tokens]

anthropicUsageMetadata(u) ==
  [promptTokenCount |-> u.input_tokens, candidatesTokenCount |-> u.output_tokens,
   totalTokenCount |-> u.input_tokens + u.output_tokens]

----------------------------------------------------------------------------
\* parseOpenAIStream: the body of the loop over the lines.  g is the
\* generator's local state [tool, finalUsage, out, returned].

\* currentToolCall && currentToolCall.id && currentToolCall.name
Ready(tool) == tool # None /\ Truthy(tool[1].id) /\ Truthy(tool[1].name)

flushToolCall(tool) ==
  FunctionCallPart(tool[1].id, tool[1].name,
                   parseToolCallArguments(tool[1].arguments))

\* Fault seeded for C3: a fragment replaces the accumulated text.
replaceArguments(arguments, fragment) == fragment

\* currentToolCall.arguments += toolCall.function.arguments
appendArguments(arguments, fragment) == arguments \o fragment

\* for (const toolCall of choice.delta.tool_calls), on s = [tool, parts]
RECURSIVE openaiToolCalls(_, _)
openaiToolCalls(s, toolCalls) ==
  IF toolCalls = <<>> THEN s
  ELSE
    LET toolCall == Head(toolCalls)
        fn == toolCall.function
        next ==
          IF fn = None THEN s
          ELSE IF Truthy(fn[1].name)
          THEN [tool |-> Some([id |-> toolCall.id,
                               name |-> fn[1].name,
                               arguments |-> IF TruthyChars(fn[1].arguments)
                                             THEN fn[1].arguments[1] ELSE <<>>]),
                parts |-> IF Ready(s.tool)
                          THEN Append(s.parts, flushToolCall(s.tool))
                          ELSE s.parts]
          ELSE IF s.tool # None /\ TruthyChars(fn[1].arguments)
          THEN [s EXCEPT !.tool =
                  Some([@[1] EXCEPT !.arguments =
                          appendArguments(@, fn[1].arguments[1])])]
          ELSE s
    IN openaiToolCalls(next, Tail(toolCalls))

\* if (currentToolCall && (choice.finish_reason ||
\*     (!choice.delta.tool_calls && !choice.delta.content)))
completesToolCall(tool, chunk) ==
  /\ tool # None
  /\ \/ Truthy(chunk.finish_reason)
     \/ (chunk.tool_calls = None /\ ~TruthyChars(chunk.content))

\* Fault seeded for C8: no default when the chunk has no finish_reason.
streamFinishReasonUnset(finish_reason) ==
  IF Truthy(finish_reason) THEN convertFinishReason(finish_reason[1])
  ELSE None

\* finishReason of a yielded chunk
streamFinishReason(finish_reason) ==
  IF Truthy(finish_reason) THEN convertFinishReason(finish_reason[1])
  ELSE Some("STOP")

\* Fault seeded for C38: a completed tool call is emitted and its accumulator
\* kept.
openaiChunkKeepingFlushed(g, chunk) ==
  IF ~chunk.choice THEN g
  ELSE
    LET parts0 == IF TruthyChars(chunk.content)
                  THEN <<TextPart(chunk.content[1])>> ELSE <<>>
        s0 == [tool |-> g.tool, parts |-> parts0]
        s1 == IF chunk.tool_calls # None
              THEN openaiToolCalls(s0, chunk.tool_calls[1]) ELSE s0
        s2 == IF completesToolCall(s1.tool, chunk)
              THEN [tool |-> s1.tool, parts |-> Append(s1.parts, flushToolCall(s1.tool))]
              ELSE s1
        streamOut ==
          Response(s2.parts, streamFinishReason(chunk.finish_reason),
                   Some(chunk.index),
                   IF chunk.usage # None THEN Some(usageMetadata(chunk.usage[1]))
                   ELSE None)
    IN [g EXCEPT !.tool = s2.tool,
                 !.out = IF s2.parts # <<>> THEN Append(@, streamOut) ELSE @]

\* if (choice.delta) { ... yield streamResponse }
openaiChunk(g, chunk) ==
  IF ~chunk.choice THEN g
  ELSE
    LET parts0 == IF TruthyChars(chunk.content)
                  THEN <<TextPart(chunk.content[1])>> ELSE <<>>
        s0 == [tool |-> g.tool, parts |-> parts0]
        s1 == IF chunk.tool_calls # None
              THEN openaiToolCalls(s0, chunk.tool_calls[1]) ELSE s0
        s2 == IF completesToolCall(s1.tool, chunk)
              THEN [tool |-> None, parts |-> Append(s1.parts, flushToolCall(s1.tool))]
              ELSE s1
        streamOut ==
          Response(s2.parts, streamFinishReason(chunk.finish_reason),
                   Some(chunk.index),
                   IF chunk.usage # None THEN Some(usageMetadata(chunk.usage[1]))
                   ELSE None)
    IN [g EXCEPT !.tool = s2.tool,
                 !.out = IF s2.parts # <<>> THEN Append(@, streamOut) ELSE @]

\* The [DONE] branch: flush a ready tool call, then return.
openaiDone(g) ==
  [g EXCEPT !.out = IF Ready(g.tool)
                    THEN Append(@, Response(<<flushToolCall(g.tool)>>,
                                            Some("STOP"), Some(0), None))
                    ELSE @,
            !.returned = TRUE]

\* Fault seeded for C2: a line that fails to parse ends the stream and drops
\* the open tool call.
openaiLineAbortOnError(g, line) ==
  LET trimmedLine == trim(line) IN
  IF ~startsWith(trimmedLine, DataPrefix) THEN g
  ELSE
    LET jsonData == slice(trimmedLine, 6) IN
    IF jsonData = DoneSentinel THEN openaiDone(g)
    ELSE
      LET chunk == JSONparse(jsonData, OpenAIDocuments) IN
      IF chunk = None THEN [g EXCEPT !.tool = None, !.returned = TRUE]
      ELSE openaiChunk(g, chunk[1])

openaiLine(g, line) ==
  LET trimmedLine == trim(line) IN
  IF ~startsWith(trimmedLine, DataPrefix) THEN g
  ELSE
    LET jsonData == slice(trimmedLine, 6) IN
    IF jsonData = DoneSentinel THEN openaiDone(g)
    ELSE
      LET chunk == JSONparse(jsonData, OpenAIDocuments) IN
      IF chunk = None THEN g      \* catch: skip invalid JSON lines
      ELSE openaiChunk(g, chunk[1])

----------------------------------------------------------------------------
\* parseAnthropicStream: the body of the loop over the lines.

emit(g, response) == [g EXCEPT !.out = Append(@, response)]

\* if (data.type === 'content_block_delta' && currentToolUse &&
\* data.delta?.type === 'input_json_delta') currentToolUse.inputJson += ...
inputJsonDelta(g, data) ==
  IF /\ data.type = "content_block_delta"
     /\ g.tool # None
     /\ data.delta # None
     /\ data.delta[1].type = Some("input_json_delta")
  THEN [g EXCEPT !.tool =
          Some([@[1] EXCEPT !.inputJson =
                  appendArguments(@, IF data.delta[1].partial_json # None
                                     THEN data.delta[1].partial_json[1]
                                     ELSE <<>>)])]
  ELSE g

\* The body of the loop for one event, run to the end of its iteration (the
\* consumer resumes the generator after the event's yield).
anthropicEvent(g, data) ==
  LET delta == data.delta
      g1 == IF /\ data.type = "content_block_start"
               /\ data.content_block # None
               /\ data.content_block[1].type = "tool_use"
            THEN [g EXCEPT !.tool = Some([id |-> data.content_block[1].id,
                                          name |-> data.content_block[1].name,
                                          inputJson |-> <<>>])]
            ELSE g
      g2 == IF /\ data.type = "content_block_delta"
               /\ delta # None
               /\ TruthyChars(delta[1].text)
            THEN emit(g1, Response(<<TextPart(delta[1].text[1])>>,
                                   Some("STOP"), Some(0), None))
            ELSE g1
      g3 == inputJsonDelta(g2, data)
      g4 == IF /\ data.type = "content_block_stop"
               /\ g3.tool # None
               /\ Truthy(g3.tool[1].name)
            THEN [emit(g3, Response(<<FunctionCallPart(g3.tool[1].id, g3.tool[1].name,
                                        parseToolInput(g3.tool[1].inputJson))>>,
                                    Some("STOP"), Some(0), None))
                    EXCEPT !.tool = None]
            ELSE g3
      g5 == IF data.type = "message_stop" /\ data.usage # None
            THEN [g4 EXCEPT !.finalUsage = data.usage]
            ELSE g4
      g6 == IF /\ data.type = "message_delta"
               /\ delta # None
               /\ Truthy(delta[1].stop_reason)
            THEN emit(g5, Response(<<TextPart(<<>>)>>,
                                   Some(anthropicConvertFinishReason(delta[1].stop_reason[1])),
                                   Some(0),
                                   IF g5.finalUsage # None
                                   THEN Some(anthropicUsageMetadata(g5.finalUsage[1]))
                                   ELSE None))
            ELSE g5
  IN g6

anthropicLine(g, line) ==
  IF trim(line) = <<>> \/ ~startsWith(line, DataPrefix) THEN g
  ELSE
    LET jsonStr == trim(slice(line, 6)) IN
    IF jsonStr = <<>> THEN g
    ELSE
      LET data == JSONparse(jsonStr, AnthropicDocuments) IN
      IF data = None THEN g       \* catch: the chunk is skipped
      ELSE anthropicEvent(g, data[1])

----------------------------------------------------------------------------
\* One iteration of the read loop of either parser.

processLine(v, g, line) ==
  IF v = "openai" THEN openaiLine(g, line) ELSE anthropicLine(g, line)

RECURSIVE processLines(_, _, _)
processLines(v, g, lines) ==
  IF lines = <<>> \/ g.returned THEN g
  ELSE processLines(v, processLine(v, g, Head(lines)), Tail(lines))

tool == IF vendor = "openai" THEN currentToolCall ELSE currentToolUse

\* The parser's local state before the first read.
fresh ==
  [pending |-> <<>>, buffer |-> <<>>, tool |-> None, finalUsage |-> None,
   out |-> <<>>, returned |-> FALSE]

\* const { done, value } = await reader.read() with done false and value =
\* bytes, up to the next read: decode, append to the buffer, split, keep the
\* last segment, process the complete lines.
readChunk(v, s, bytes) ==
  LET dec == decode(v, s.pending, bytes)
      segments == split(s.buffer \o dec.text)
      lines == SubSeq(segments, 1, Len(segments) - 1)
      g == processLines(v, [tool |-> s.tool, finalUsage |-> s.finalUsage,
                            out |-> s.out, returned |-> FALSE], lines)
  IN [pending |-> dec.pending, buffer |-> segments[Len(segments)],
      tool |-> g.tool, finalUsage |-> g.finalUsage, out |-> g.out,
      returned |-> g.returned]

\* The line hands a response to the consumer: yield response / yield streamOut.
Yields(v, g, line) == Len(processLine(v, g, line).out) > Len(g.out)

\* The parser's state when the generator is suspended at the yield of a line.
\* OpenAI: `currentToolCall = null` precedes `yield streamOut`, and in the
\* [DONE] branch `return` follows `yield response`.  Anthropic: the text
\* delta's yield precedes the accumulation of partial_json, and
\* `currentToolUse = null` follows the yield of the completed tool use; a
\* content_block_start yields nothing.
atYield(v, g, line) ==
  IF v = "openai" THEN [openaiLine(g, line) EXCEPT !.returned = FALSE]
  ELSE [anthropicLine(g, line) EXCEPT !.tool = g.tool]

\* The statements of the line's iteration that follow its yield; they run
\* when the consumer asks for the next value.
afterYield(v, g, line) ==
  IF v = "openai"
  THEN IF slice(trim(line), 6) = DoneSentinel
       THEN [g EXCEPT !.returned = TRUE]                  \* return
       ELSE g
  ELSE LET data == JSONparse(trim(slice(line, 6)), AnthropicDocuments)[1] IN
       IF data.type = "content_block_stop"
       THEN [g EXCEPT !.tool = None]                      \* currentToolUse = null
       ELSE inputJsonDelta(g, data)

\* for (const line of lines) { ... } from the line at the head up to the
\* first yield, to a return, or to the end of the lines.
RECURSIVE runLines(_, _, _)
runLines(v, g, ls) ==
  IF ls = <<>> THEN [g |-> g, yielded |-> FALSE, remaining |-> <<>>]
  ELSE IF Yields(v, g, Head(ls))
  THEN [g |-> atYield(v, g, Head(ls)), yielded |-> TRUE, remaining |-> ls]
  ELSE LET h == processLine(v, g, Head(ls)) IN
       IF h.returned THEN [g |-> h, yielded |-> FALSE, remaining |-> <<>>]
       ELSE runLines(v, h, Tail(ls))

\* const { done, value } = await reader.read() with done false and value =
\* bytes, up to the first yield: decode, append to the buffer, split, keep
\* the last segment, process the complete lines until one yields.
readUntilYield(v, s, bytes) ==
  LET dec == decode(v, s.pending, bytes)
      segments == split(s.buffer \o dec.text)
      r == runLines(v, [tool |-> s.tool, finalUsage |-> s.finalUsage,
                        out |-> s.out, returned |-> FALSE],
                    SubSeq(segments, 1, Len(segments) - 1))
  IN [pending |-> dec.pending, buffer |-> segments[Len(segments)],
      tool |-> r.g.tool, finalUsage |-> r.g.finalUsage, out |-> r.g.out,
      returned |-> r.g.returned, yielded |-> r.yielded,
      remaining |-> r.remaining]

\* The generator runs from where it stands to its next suspension: the state
\* s it reaches is either a yield (the lock is held), or the return of the
\* [DONE] branch through finally { reader.releaseLock() }, or the next read.
Suspend(s) ==
  /\ currentToolCall' = IF vendor = "openai" THEN s.tool ELSE currentToolCall
  /\ currentToolUse' = IF vendor = "anthropic" THEN s.tool ELSE currentToolUse
  /\ finalUsage' = s.finalUsage
  /\ out' = s.out
  /\ pc' = IF s.returned THEN "done" ELSE "reading"
  /\ released' = s.returned
  /\ releaseLockCalls' = IF s.returned THEN releaseLockCalls + 1
                         ELSE releaseLockCalls
  /\ yielded' = s.yielded
  /\ remaining' = s.remaining
  /\ UNCHANGED <<error, adapterVars>>

Deliver(bytes) ==
  \E s \in {readUntilYield(vendor,
                           [pending |-> pending, buffer |-> buffer, tool |-> tool,
                            finalUsage |-> finalUsage, out |-> out],
                           bytes)} :
     /\ ~yielded
     /\ pending' = s.pending
     /\ buffer' = s.buffer
     /\ Suspend(s)

----------------------------------------------------------------------------
\* convertOpenAIToGeminiResponse (single-shot responses).

ToolCall(id, name, arguments) ==
  [id |-> id, function |-> Some([name |-> name, arguments |-> arguments])]

RECURSIVE toolCallParts(_)
toolCallParts(toolCalls) ==
  IF toolCalls = <<>> THEN <<>>
  ELSE (IF Head(toolCalls).function # None
        THEN <<FunctionCallPart(Some(Head(toolCalls).id),
                                Some(Head(toolCalls).function[1].name),
                                parseToolCallArguments(
                                  Head(toolCalls).function[1].arguments))>>
        ELSE <<>>)
       \o toolCallParts(Tail(toolCalls))

\* None when it throws 'Invalid response format from OpenAI'.
convertOpenAIToGeminiResponse(response) ==
  IF ~response.choice THEN None
  ELSE
    LET textParts == IF TruthyChars(response.content)
                     THEN <<TextPart(response.content[1])>> ELSE <<>>
        parts == textParts \o (IF response.tool_calls # None
                               THEN toolCallParts(response.tool_calls[1])
                               ELSE <<>>)
    IN Some(Response(IF parts = <<>> THEN <<TextPart(<<>>)>> ELSE parts,
                     convertFinishReason(response.finish_reason),
                     Some(0),
                     Some(IF response.usage # None
                          THEN usageMetadata(response.usage[1])
                          ELSE [promptTokenCount |-> 0, candidatesTokenCount |-> 0,
                                totalTokenCount |-> 0])))

\* Argument texts of single-shot tool calls: a document, the empty string,
\* a truncated document, the empty object, whitespace.
ArgumentTexts ==
  {ArgsObjectText, <<>>, SubSeq(ArgsObjectText, 1, 5), ArgsEmptyObjectText, <<" ">>}

SingleShotToolCalls ==
  {None}
  \cup {Some(<<ToolCall("c1", "f", a)>>) : a \in ArgumentTexts}
  \cup {Some(<<ToolCall("c1", "f", a), ToolCall("c2", "g", ArgsObjectText)>>)
          : a \in ArgumentTexts}

SingleShotResponses ==
  [choice : BOOLEAN, content : {None, Some(<<"H", "i">>)},
   tool_calls : SingleShotToolCalls, finish_reason : {"stop", "tool_calls"},
   usage : {None, Some(Usage)}]

----------------------------------------------------------------------------
\* The lines a vendor can send, by name (without the terminating newline).

OpenAIWire ==
  [text |-> DataPrefix \o OpenAITextPre \o <<"H", "i">> \o OpenAITextPost,
   textUsage |-> DataPrefix \o OpenAITextPre \o <<"H", "i">> \o OpenAITextUsagePost,
   start |-> DataPrefix \o OpenAIStartText,
   startNoId |-> DataPrefix \o OpenAIStartNoIdText,
   idOnly |-> DataPrefix \o OpenAIIdOnlyText,
   fragA |-> DataPrefix \o OpenAIFragPre
               \o JSONescape(SubSeq(ArgsObjectText, 1, 4)) \o OpenAIFragPost,
   fragB |-> DataPrefix \o OpenAIFragPre
               \o JSONescape(SubSeq(ArgsObjectText, 5, 7)) \o OpenAIFragPost,
   finishTool |-> DataPrefix \o OpenAIFinishToolText,
   finishLength |-> DataPrefix \o OpenAIFinishLengthText,
   emptyDelta |-> DataPrefix \o OpenAIEmptyDeltaText,
   usageOnly |-> DataPrefix \o OpenAIUsageOnlyText,
   malformed |-> DataPrefix \o MalformedPayload,
   comment |-> CommentLine,
   done |-> DataPrefix \o DoneSentinel]

AnthropicWire ==
  [text |-> DataPrefix \o AnthropicTextPre \o <<"H", "i">> \o AnthropicTextPost,
   start |-> DataPrefix \o AnthropicStartText,
   startNoId |-> DataPrefix \o AnthropicStartNoIdText,
   startNoName |-> DataPrefix \o AnthropicStartNoNameText,
   fragA |-> DataPrefix \o AnthropicFragPre
               \o JSONescape(SubSeq(ArgsObjectText, 1, 4)) \o AnthropicFragPost,
   fragB |-> DataPrefix \o AnthropicFragPre
               \o JSONescape(SubSeq(ArgsObjectText, 5, 7)) \o AnthropicFragPost,
   blockStop |-> DataPrefix \o AnthropicBlockStopText,
   messageDelta |-> DataPrefix \o AnthropicMessageDeltaText,
   messageDeltaUsage |-> DataPrefix \o AnthropicMessageDeltaUsageText,
   messageStop |-> DataPrefix \o AnthropicMessageStopText,
   ping |-> DataPrefix \o AnthropicPingText,
   malformed |-> DataPrefix \o MalformedPayload,
   comment |-> EventLine]

Wire(v) == IF v = "openai" THEN OpenAIWire ELSE AnthropicWire

Documents(v) == IF v = "openai" THEN OpenAIDocuments ELSE AnthropicDocuments

\* The bytes of a line as the vendor sends it.
LineBytes(line) == TextEncoder(line \o <<"\n">>)

\* The parsed event of a named line: None for a line that is no JSON event.
EventOf(v, name) ==
  IF name \in DOMAIN Wire(v) /\ startsWith(Wire(v)[name], DataPrefix)
  THEN JSONparse(slice(Wire(v)[name], 6), Documents(v))
  ELSE None

CarriesUsage(v, name) == EventOf(v, name) # None /\ EventOf(v, name)[1].usage # None

----------------------------------------------------------------------------
\* What a line means in the vendor's protocol.

\* The line opens a tool call (OpenAI: a tool_calls delta with a function
\* name; Anthropic: content_block_start of a tool_use block).
StartsToolCall(v, name) ==
  LET e == EventOf(v, name) IN
  /\ e # None
  /\ IF v = "openai"
     THEN /\ e[1].tool_calls # None
          /\ e[1].tool_calls[1][1].function # None
          /\ Truthy(e[1].tool_calls[1][1].function[1].name)
     ELSE /\ e[1].type = "content_block_start"
          /\ e[1].content_block # None
          /\ e[1].content_block[1].type = "tool_use"

\* The argument fragment the line carries, if it is an argument-only event.
FragmentOf(v, name) ==
  LET e == EventOf(v, name) IN
  IF e = None THEN None
  ELSE IF v = "openai"
  THEN (IF /\ e[1].tool_calls # None
           /\ e[1].tool_calls[1][1].function # None
           /\ ~Truthy(e[1].tool_calls[1][1].function[1].name)
        THEN e[1].tool_calls[1][1].function[1].arguments
        ELSE None)
  ELSE (IF /\ e[1].type = "content_block_delta"
           /\ e[1].delta # None
           /\ e[1].delta[1].type = Some("input_json_delta")
        THEN e[1].delta[1].partial_json
        ELSE None)

\* The vendor finish / stop reason the line carries, if any.
FinishOf(v, name) ==
  LET e == EventOf(v, name) IN
  IF e = None THEN None
  ELSE IF v = "openai"
  THEN (IF e[1].choice THEN e[1].finish_reason ELSE None)
  ELSE (IF e[1].type = "message_delta" /\ e[1].delta # None
        THEN e[1].delta[1].stop_reason ELSE None)

\* The canonical finish reason of a vendor code.
FinishReasonOf(v, reason) ==
  IF v = "openai" THEN convertFinishReason(reason)
  ELSE Some(anthropicConvertFinishReason(reason))

\* The argument text sent so far for the call last opened on the wire.
WireArgsAfter(v, w, name) ==
  IF StartsToolCall(v, name)
  THEN (IF v = "openai" /\ TruthyChars(EventOf(v, name)[1].tool_calls[1][1].function[1].arguments)
        THEN EventOf(v, name)[1].tool_calls[1][1].function[1].arguments
        ELSE Some(<<>>))
  ELSE IF FragmentOf(v, name) # None /\ w # None
  THEN Some(w[1] \o FragmentOf(v, name)[1])
  ELSE w

----------------------------------------------------------------------------
\* Bodies fixed in advance.

RECURSIVE BodyOf(_)
BodyOf(lines) ==
  IF lines = <<>> THEN <<>> ELSE LineBytes(Head(lines)) \o BodyOf(Tail(lines))

FragmentLine(v, f) ==
  DataPrefix \o (IF v = "openai" THEN OpenAIFragPre ELSE AnthropicFragPre)
             \o JSONescape(f)
             \o (IF v = "openai" THEN OpenAIFragPost ELSE AnthropicFragPost)

AccentLine(v) ==
  DataPrefix \o (IF v = "openai" THEN OpenAITextPre ELSE AnthropicTextPre)
             \o <<"U+00E9">>
             \o (IF v = "openai" THEN OpenAITextPost ELSE AnthropicTextPost)

\* Bodies read in chunks of any size: a text delta with a two-byte character,
\* a tool call, and lines ending in CR LF with an unterminated last line.
Bodies(v) ==
  IF v = "openai"
  THEN { BodyOf(<<AccentLine(v), OpenAIWire.done>>),
         BodyOf(<<OpenAIWire.start, OpenAIWire.finishTool, OpenAIWire.done>>),
         BodyOf(<<OpenAIWire.text \o <<"\r">>, OpenAIWire.malformed \o <<"\r">>>>)
           \o TextEncoder(OpenAIWire.text) }
  ELSE { BodyOf(<<AnthropicWire.comment, AccentLine(v), AnthropicWire.messageDelta>>),
         BodyOf(<<AnthropicWire.start, AnthropicWire.fragA, AnthropicWire.blockStop>>),
         BodyOf(<<AnthropicWire.text \o <<"\r">>, AnthropicWire.malformed \o <<"\r">>>>)
           \o TextEncoder(AnthropicWire.text) }

\* The fragments a set of cut positions slices the argument text into.
SlicingOf(cuts) ==
  LET k == Cardinality(cuts)
      at(j) == IF j = 0 THEN 0
               ELSE IF j = k + 1 THEN Len(ArgsObjectText)
               ELSE CHOOSE i \in cuts : Cardinality({x \in cuts : x <= i}) = j
  IN [j \in 1..(k + 1) |-> SubSeq(ArgsObjectText, at(j - 1) + 1, at(j))]

Slicings == {SlicingOf(cuts) : cuts \in SUBSET (1..(Len(ArgsObjectText) - 1))}

RECURSIVE FragmentLines(_, _)
FragmentLines(v, fragments) ==
  IF fragments = <<>> THEN <<>>
  ELSE <<FragmentLine(v, Head(fragments))>> \o FragmentLines(v, Tail(fragments))

\* One tool call: its start, its argument fragments, its completion.
ToolCallBody(v, fragments) ==
  IF v = "openai"
  THEN BodyOf(<<OpenAIWire.start>> \o FragmentLines(v, fragments)
              \o <<OpenAIWire.finishTool, OpenAIWire.done>>)
  ELSE BodyOf(<<AnthropicWire.start>> \o FragmentLines(v, fragments)
              \o <<AnthropicWire.blockStop>>)

RECURSIVE Concat(_)
Concat(ss) == IF ss = <<>> THEN <<>> ELSE Head(ss) \o Concat(Tail(ss))

----------------------------------------------------------------------------
\* baseProvider.ts: the error taxonomy.  A message is the sequence of the
\* pieces its template literal concatenates.

Error(message) ==
  [name |-> "Error", provider |-> None, message |-> message,
   originalError |-> None]

\* A rejection of fetch or of reader.read(): a network failure (TypeError) or
\* an abort by the cancellation signal or the timeout (AbortError).
Rejection(name) ==
  [name |-> name, provider |-> None, message |-> <<"fetch failed">>,
   originalError |-> None]

\* The rejection of response.json() on a body that is no JSON document.
SyntaxError ==
  [name |-> "SyntaxError", provider |-> None,
   message |-> <<"Unexpected end of JSON input">>, originalError |-> None]

ProviderConfigurationError(p, message) ==
  [name |-> "ProviderConfigurationError", provider |-> Some(p),
   message |-> <<"Configuration error for ", p, ": ">> \o message,
   originalError |-> None]

ProviderAPIError(p, message, originalError) ==
  [name |-> "ProviderAPIError", provider |-> Some(p),
   message |-> <<"API error for ", p, ": ">> \o message,
   originalError |-> originalError]

\* `${n}` of a non-negative integer: its decimal digits.
RECURSIVE String(_)
String(n) ==
  LET digit == <<"0", "1", "2", "3", "4", "5", "6", "7", "8", "9">>[(n % 10) + 1]
  IN IF n < 10 THEN <<digit>> ELSE String(n \div 10) \o <<digit>>

----------------------------------------------------------------------------
\* The adapters: OpenAIProvider, AnthropicProvider and the subclasses of
\* OpenAIProvider, as built by NonGeminiContentGenerator.createProvider.

LLMProvider == {"openai", "anthropic", "openrouter", "ollama", "vllm", "deepseek"}

\* this.provider of the adapter built for vendor a: OpenAIProvider's field,
\* which DeepSeekProvider and OpenRouterProvider redefine in their
\* constructors and OllamaProvider and VLLMProvider inherit.
provider(a) == IF a \in {"ollama", "vllm"} THEN "openai" ELSE a

\* this.apiKey: OllamaProvider's constructor passes apiKey: ''.
apiKey(a, key) == IF a = "ollama" THEN FALSE ELSE key

\* AbstractProvider.requiresApiKey (on getProvider() = config.provider).
requiresApiKey(a) == a \notin {"ollama", "vllm"}

supportsEmbeddings(a) == a \notin {"anthropic", "vllm"}

\* The parser an adapter's generateContentStream returns.
ParserOf(a) == IF a = "anthropic" THEN "anthropic" ELSE "openai"

\* What fetch does: it rejects, or resolves to a response.
HttpStatuses == {200, 429, 500}

FetchOutcomes ==
  {[rejects |-> Some(Rejection(n)), status |-> 0, body |-> FALSE]
     : n \in {"TypeError", "AbortError"}}
  \cup {[rejects |-> None, status |-> st, body |-> b]
         : st \in HttpStatuses, b \in BOOLEAN}

\* response.ok
ok(http) == http.status >= 200 /\ http.status <= 299

\* The outcome of a call: the value it resolves to or the error it rejects
\* with, and the number of HTTP requests it issued.
Resolves(value, n) == [value |-> Some(value), error |-> None, requests |-> n]
Rejects(e, n) == [value |-> None, error |-> Some(e), requests |-> n]

\* Fault seeded for C20: the probe's rejection escapes validateConfig.
validateConfigThrowing(a, key, http) ==
  CASE a = "anthropic" -> Resolves(~(~key /\ requiresApiKey(a)), 0)
    [] a = "openrouter" /\ ~key -> Resolves(FALSE, 0)
    [] OTHER -> IF http.rejects # None THEN Rejects(http.rejects[1], 1)
                ELSE Resolves(ok(http), 1)

\* validateConfig: AbstractProvider's (inherited by AnthropicProvider),
\* OpenAIProvider's and DeepSeekProvider's probe of /models,
\* OpenRouterProvider's key test before it, OllamaProvider's and
\* VLLMProvider's health check.
validateConfig(a, key, http) ==
  CASE a = "anthropic" -> Resolves(~(~key /\ requiresApiKey(a)), 0)
    [] a = "openrouter" /\ ~key -> Resolves(FALSE, 0)
    [] OTHER -> Resolves(http.rejects = None /\ ok(http), 1)

\* The message of the ProviderConfigurationError initialize throws when the
\* adapter has no key.
apiKeyRequired(a) ==
  CASE a = "openai" ->
         <<"OpenAI API key is required. Please set apiKey in provider config.">>
    [] a = "deepseek" ->
         <<"DeepSeek API key is required. Please set DEEPSEEK_API_KEY environment variable or provide apiKey in config.">>
    [] a = "openrouter" ->
         <<"API key is required for OpenRouter. Set OPENROUTER_API_KEY environment variable or provide apiKey in config.">>
    [] OTHER -> <<"API key is required for Anthropic Claude">>

\* The message of the Error initialize throws when the health check of a
\* local server fails: the inner Error's message behind the catch block's
\* prefix.
serverNotRunning(a) ==
  IF a = "ollama"
  THEN <<"Failed to initialize Ollama provider: ",
         "Ollama server not running. Please start Ollama first: ollama serve">>
  ELSE <<"Failed to initialize vLLM provider: ",
         "vLLM server not running. Please start vLLM server first: python -m vllm.entrypoints.openai_api_server --model <model_name>">>

\* Fault seeded for C18: the probe is made before the key is looked at.
initializeProbingFirst(a, key, http) ==
  IF requiresApiKey(a) /\ ~apiKey(a, key)
  THEN Rejects(ProviderConfigurationError(provider(a), apiKeyRequired(a)), 1)
  ELSE Resolves("undefined", 1)

\* initialize.
initialize(a, key, http) ==
  CASE a \in {"ollama", "vllm"} ->
         IF validateConfig(a, key, http).value = Some(TRUE)
         THEN Resolves("undefined", 1)
         ELSE Rejects(Error(serverNotRunning(a)), 1)
    [] a = "anthropic" ->
         IF ~apiKey(a, key)
         THEN Rejects(ProviderConfigurationError(provider(a), apiKeyRequired(a)), 0)
         ELSE Resolves("undefined", 0)
    [] OTHER ->
         IF ~apiKey(a, key)
         THEN Rejects(ProviderConfigurationError(provider(a), apiKeyRequired(a)), 0)
         ELSE Resolves("undefined", validateConfig(a, key, http).requests)

\* Fault seeded for C17: a response that is not ok is asked for a second time.
makeRequestRetrying(a, http, what, bodyRead, value) ==
  IF http.rejects # None
  THEN Rejects(ProviderAPIError(provider(a), <<what>> \o http.rejects[1].message,
                                http.rejects), 1)
  ELSE IF ~ok(http)
  THEN Rejects(ProviderAPIError(
                 provider(a),
                 <<what, "HTTP ">> \o String(http.status) \o <<": ", "errorText">>,
                 None), 2)
  ELSE Resolves(value, 1)

\* The try / catch shared by generateContent, generateContentStream and
\* embedContent: one request; a rejection of fetch, a response that is not ok
\* or (bodyRead) a body that cannot be read as JSON is wrapped in a
\* ProviderAPIError.
makeRequest(a, http, what, bodyRead, value) ==
  IF http.rejects # None
  THEN Rejects(ProviderAPIError(provider(a), <<what>> \o http.rejects[1].message,
                                http.rejects), 1)
  ELSE IF ~ok(http)
  THEN Rejects(ProviderAPIError(
                 provider(a),
                 <<what, "HTTP ">> \o String(http.status) \o <<": ", "errorText">>,
                 Some(Error(<<"HTTP ">> \o String(http.status) \o <<": ", "errorText">>))),
               1)
  ELSE IF bodyRead /\ ~http.body
  THEN Rejects(ProviderAPIError(provider(a), <<what>> \o SyntaxError.message,
                                Some(SyntaxError)), 1)
  ELSE Resolves(value, 1)

generateContent(a, http) ==
  makeRequest(a, http, "Generation failed: ", TRUE, "response")

generateContentStream(a, http) ==
  makeRequest(a, http, "Streaming failed: ", FALSE, "generator")

\* embedContent, called on the adapter or (router) on
\* NonGeminiContentGenerator, which asks supportsEmbeddings first.
embedContent(a, router, http) ==
  IF router /\ ~supportsEmbeddings(a)
  THEN Rejects(Error(<<"Provider ", a, " does not support embeddings">>), 0)
  ELSE IF a = "anthropic"
  THEN Rejects(ProviderAPIError(provider(a),
                                <<"Embeddings not supported by Anthropic API">>, None), 0)
  ELSE makeRequest(a, http, "Embedding failed: ", TRUE, "embeddings")

\* VLLMProvider.getAvailableModels: GET /models; a rejection of fetch, a
\* response that is not ok or a body that is no JSON is wrapped in a
\* ProviderAPIError of LLMProvider.VLLM.
getAvailableModels(http) ==
  IF http.rejects # None
  THEN Rejects(ProviderAPIError("vllm",
                                <<"Failed to get available models: ">>
                                  \o http.rejects[1].message,
                                http.rejects), 1)
  ELSE IF ~ok(http)
  THEN Rejects(ProviderAPIError(
                 "vllm",
                 <<"Failed to get available models: ", "HTTP ">>
                   \o String(http.status) \o <<": ", "errorText">>,
                 Some(Error(<<"HTTP ">> \o String(http.status) \o <<": ", "errorText">>))),
               1)
  ELSE IF ~http.body
  THEN Rejects(ProviderAPIError("vllm",
                                <<"Failed to get available models: ">>
                                  \o SyntaxError.message,
                                Some(SyntaxError)), 1)
  ELSE Resolves("models", 1)

\* VLLMProvider.getServerInfo: getAvailableModels, its failure wrapped once
\* more.
getServerInfo(http) ==
  IF getAvailableModels(http).error # None
  THEN Rejects(ProviderAPIError("vllm",
                                <<"Failed to get server info: ">>
                                  \o getAvailableModels(http).error[1].message,
                                getAvailableModels(http).error), 1)
  ELSE Resolves("info", 1)

----------------------------------------------------------------------------
\* The state machine: one streaming call (or one single-shot conversion).

Vendors == {"openai", "anthropic"}

InitCommon ==
  /\ vendor \in Vendors
  /\ pc = "start"
  /\ pending = <<>>
  /\ buffer = <<>>
  /\ currentToolCall = None
  /\ currentToolUse = None
  /\ finalUsage = None
  /\ out = <<>>
  /\ released = FALSE
  /\ reads = 0
  /\ lastLine = ""
  /\ usageSeen = FALSE
  /\ wireArgs = None
  /\ single = None
  /\ yielded = FALSE
  /\ remaining = <<>>
  /\ releaseLockCalls = 0
  /\ error = None
  /\ adapter = vendor
  /\ hasKey = TRUE
  /\ requests = 0
  /\ call = None
  /\ config = [provider |-> adapter, model |-> None]
  /\ request = None
  /\ streams = None
  /\ sanitizer = None

\* Events arrive one line per read, chosen by the vendor as the stream goes.
Init ==
  /\ InitCommon
  /\ hasBody \in BOOLEAN
  /\ wire = <<>>
  /\ body = <<>>
  /\ slicing = <<>>

\* The body is fixed in advance and read in chunks of any size.
InitBytes ==
  /\ InitCommon
  /\ hasBody = TRUE
  /\ wire \in Bodies(vendor)
  /\ body = wire
  /\ slicing = <<>>

\* The body is one tool call whose argument text is sliced in any way.
InitSlices ==
  /\ InitCommon
  /\ hasBody = TRUE
  /\ slicing \in Slicings
  /\ wire = ToolCallBody(vendor, slicing)
  /\ body = wire

\* Fault seeded for C14: the body is not checked before the loop.
StartWithoutCheck ==
  /\ pc = "start"
  /\ pc' = "reading"
  /\ UNCHANGED <<vendor, hasBody, wire, pending, buffer, currentToolCall,
                 currentToolUse, finalUsage, out, released, reads, lastLine,
                 usageSeen, wireArgs, body, slicing, single, yielded, remaining,
                 releaseLockCalls, error, adapterVars>>

\* const reader = response.body?.getReader(); if (!reader) throw ...
Start ==
  /\ pc = "start"
  /\ pc' = IF hasBody THEN "reading" ELSE "failed"
  /\ error' = IF hasBody THEN error
               ELSE Some(Error(IF vendor = "openai"
                               THEN <<"No response body available for streaming">>
                               ELSE <<"Response body is not readable">>))
  /\ UNCHANGED <<vendor, hasBody, wire, pending, buffer, currentToolCall,
                 currentToolUse, finalUsage, out, released, reads, lastLine,
                 usageSeen, wireArgs, body, slicing, single, yielded, remaining,
                 releaseLockCalls, adapterVars>>

\* A read that returns one complete line, chosen by the vendor.
ReadLine ==
  /\ pc = "reading"
  /\ reads < MaxReads
  /\ \E name \in DOMAIN Wire(vendor) :
       /\ Deliver(LineBytes(Wire(vendor)[name]))
       /\ lastLine' = name
       /\ usageSeen' = (usageSeen \/ CarriesUsage(vendor, name))
       /\ wireArgs' = WireArgsAfter(vendor, wireArgs, name)
  /\ reads' = reads + 1
  /\ UNCHANGED <<vendor, hasBody, wire, body, slicing, single>>

\* A read that returns the next bytes of the body, any number of them.
ReadBytes ==
  /\ pc = "reading"
  /\ \E n \in 1..Len(wire) :
       /\ Deliver(SubSeq(wire, 1, n))
       /\ wire' = SubSeq(wire, n + 1, Len(wire))
  /\ UNCHANGED <<vendor, hasBody, reads, lastLine, usageSeen, wireArgs, body,
                 slicing, single>>

\* A read that returns the bytes of the body up to the end of its next line.
ReadWireLine ==
  /\ pc = "reading"
  /\ wire # <<>>
  /\ \E n \in {Min({i \in 1..Len(wire) : wire[i] = "\n"})} :
       /\ Deliver(SubSeq(wire, 1, n))
       /\ wire' = SubSeq(wire, n + 1, Len(wire))
  /\ UNCHANGED <<vendor, hasBody, reads, lastLine, usageSeen, wireArgs, body,
                 slicing, single>>

\* A read that returns done: break, then finally { reader.releaseLock() }.
ReadDone ==
  /\ pc = "reading"
  /\ ~yielded
  /\ wire = <<>>
  /\ pc' = "done"
  /\ released' = TRUE
  /\ lastLine' = "EOF"
  /\ releaseLockCalls' = releaseLockCalls + 1
  /\ yielded' = FALSE
  /\ remaining' = <<>>
  /\ UNCHANGED <<vendor, hasBody, wire, pending, buffer, currentToolCall,
                 currentToolUse, finalUsage, out, reads, usageSeen, wireArgs,
                 body, slicing, single, error, adapterVars>>

\* Fault seeded for C12: a rejected read leaves the loop without the finally
\* block.
ReadFailsKeepingLock ==
  /\ pc = "reading"
  /\ ~yielded
  /\ \E n \in {"TypeError", "AbortError"} : error' = Some(Rejection(n))
  /\ pc' = "failed"
  /\ yielded' = FALSE
  /\ remaining' = <<>>
  /\ lastLine' = "rejected"
  /\ UNCHANGED <<vendor, hasBody, wire, pending, buffer, currentToolCall,
                 currentToolUse, finalUsage, out, released, releaseLockCalls,
                 reads, usageSeen, wireArgs, body, slicing, single, adapterVars>>

\* Fault seeded for C13: a rejected read is answered by a synthetic finish
\* event.
ReadFailsWithFinish ==
  /\ pc = "reading"
  /\ ~yielded
  /\ \E n \in {"TypeError", "AbortError"} : error' = Some(Rejection(n))
  /\ pc' = "failed"
  /\ out' = Append(out, Response(<<TextPart(<<>>)>>, Some("STOP"), Some(0), None))
  /\ released' = TRUE
  /\ releaseLockCalls' = releaseLockCalls + 1
  /\ yielded' = FALSE
  /\ remaining' = <<>>
  /\ lastLine' = "rejected"
  /\ UNCHANGED <<vendor, hasBody, wire, pending, buffer, currentToolCall,
                 currentToolUse, finalUsage, reads, usageSeen, wireArgs,
                 body, slicing, single, adapterVars>>

\* A read that rejects (network failure, or the request's abort signal fired):
\* the rejection leaves the loop through finally { reader.releaseLock() } and
\* is thrown to the consumer.
ReadFails ==
  /\ pc = "reading"
  /\ ~yielded
  /\ \E n \in {"TypeError", "AbortError"} : error' = Some(Rejection(n))
  /\ pc' = "failed"
  /\ released' = TRUE
  /\ releaseLockCalls' = releaseLockCalls + 1
  /\ yielded' = FALSE
  /\ remaining' = <<>>
  /\ lastLine' = "rejected"
  /\ UNCHANGED <<vendor, hasBody, wire, pending, buffer, currentToolCall,
                 currentToolUse, finalUsage, out, reads, usageSeen, wireArgs,
                 body, slicing, single, adapterVars>>

\* The consumer asks for the next value (for await, generator.next()) while
\* the generator is suspended at a yield: the iteration of the suspended line
\* is finished and the lines after it are processed up to the next yield, to
\* the return of the [DONE] branch, or to the next read.
Resume ==
  /\ pc = "reading"
  /\ yielded
  /\ \E g \in {afterYield(vendor, [tool |-> tool, finalUsage |-> finalUsage,
                                    out |-> out, returned |-> FALSE],
                           Head(remaining))} :
       \E r \in {IF g.returned
                 THEN [g |-> g, yielded |-> FALSE, remaining |-> <<>>]
                 ELSE runLines(vendor, g, Tail(remaining))} :
          Suspend([tool |-> r.g.tool, finalUsage |-> r.g.finalUsage,
                   out |-> r.g.out, returned |-> r.g.returned,
                   yielded |-> r.yielded, remaining |-> r.remaining])
  /\ UNCHANGED <<vendor, hasBody, wire, pending, buffer, reads, lastLine,
                 usageSeen, wireArgs, body, slicing, single>>

\* The consumer stops iterating (generator.return()) while the generator is
\* suspended at a yield: the finally block runs.
Return ==
  /\ pc = "reading"
  /\ yielded
  /\ pc' = "returned"
  /\ released' = TRUE
  /\ releaseLockCalls' = releaseLockCalls + 1
  /\ yielded' = FALSE
  /\ remaining' = <<>>
  /\ UNCHANGED <<vendor, hasBody, wire, pending, buffer, currentToolCall,
                 currentToolUse, finalUsage, out, reads, lastLine, usageSeen,
                 wireArgs, body, slicing, single, error, adapterVars>>

\* generateContent of the OpenAI adapter, up to `await
\* this.makeOpenAIRequest(...)`: the request is built and fetch is called
\* once; the call hands back its pending promise.
GenerateContent ==
  /\ pc = "start"
  /\ vendor = "openai"
  /\ hasBody
  /\ pc' = "awaiting"
  /\ requests' = requests + 1
  /\ UNCHANGED <<vendor, hasBody, wire, pending, buffer, currentToolCall,
                 currentToolUse, finalUsage, out, released, reads, lastLine,
                 usageSeen, wireArgs, body, slicing, single, yielded, remaining,
                 releaseLockCalls, error, adapter, hasKey, call, config,
                 request, streams, sanitizer>>

\* generateContent of the OpenAI adapter, from the answer of fetch to the
\* next await: a rejected fetch is wrapped in a ProviderAPIError by the catch
\* block; with a response the method awaits its body, response.text() or
\* response.json().
GenerateContentFetched ==
  /\ pc = "awaiting"
  /\ \E http \in FetchOutcomes :
       IF http.rejects # None
       THEN /\ pc' = "failed"
            /\ error' = generateContent(adapter, http).error
            /\ call' = call
       ELSE /\ pc' = "body"
            /\ call' = Some([op |-> "generateContent", http |-> Some(http)])
            /\ error' = error
  /\ UNCHANGED <<vendor, hasBody, wire, pending, buffer, currentToolCall,
                 currentToolUse, finalUsage, out, released, reads, lastLine,
                 usageSeen, wireArgs, body, slicing, single, yielded, remaining,
                 releaseLockCalls, adapter, hasKey, requests, config, request,
                 streams, sanitizer>>

\* generateContent of the OpenAI adapter, from the body on: a response that
\* is not ok or a body that is not JSON is wrapped in a ProviderAPIError by
\* the catch block; otherwise the response is converted, and a response
\* that cannot be converted is wrapped too.
GenerateContentSettles ==
  /\ pc = "body"
  /\ \E http \in {call[1].http[1]} :
       IF generateContent(adapter, http).error # None
       THEN /\ pc' = "failed"
            /\ error' = generateContent(adapter, http).error
            /\ single' = single
       ELSE \E response \in SingleShotResponses :
              /\ single' = Some([response |-> response,
                                 result |-> convertOpenAIToGeminiResponse(response)])
              /\ pc' = IF convertOpenAIToGeminiResponse(response) = None
                       THEN "failed" ELSE "done"
              /\ error' = IF convertOpenAIToGeminiResponse(response) = None
                          THEN Some(ProviderAPIError(provider(adapter), <<"Generation failed: ", "Invalid response format from OpenAI">>,
                                          Some(Error(<<"Invalid response format from OpenAI">>))))
                          ELSE error
  /\ UNCHANGED <<vendor, hasBody, wire, pending, buffer, currentToolCall,
                 currentToolUse, finalUsage, out, released, reads, lastLine,
                 usageSeen, wireArgs, body, slicing, yielded, remaining,
                 releaseLockCalls, adapterVars>>

Next ==
  \/ Start
  \/ ReadLine
  \/ Resume
  \/ ReadDone
  \/ GenerateContent
  \/ GenerateContentFetched
  \/ GenerateContentSettles
  \/ ReadFails
  \/ Return

Spec == Init /\ [][Next]_vars

NextBytes == Start \/ ReadBytes \/ Resume \/ ReadDone \/ Return

SpecBytes == InitBytes /\ [][NextBytes]_vars

NextSlices == Start \/ ReadWireLine \/ Resume \/ ReadDone \/ Return

SpecSlices == InitSlices /\ [][NextSlices]_vars

----------------------------------------------------------------------------
\* Calls on an adapter, directly or through NonGeminiContentGenerator
\* (router), which delegates initialize, generateContent and
\* generateContentStream unchanged.

\* The callers of the adapter's methods: two calls can be in flight on one
\* adapter, each awaiting its own fetch.
Callers == {"first", "second"}

\* A caller that has not called yet.
NoCall ==
  [pc |-> "idle", op |-> "none", router |-> FALSE, http |-> None,
   headers |-> {}, value |-> None, error |-> None, requests |-> 0]

InitCalls ==
  /\ adapter \in LLMProvider
  /\ hasKey \in BOOLEAN
  /\ vendor = ParserOf(adapter)
  /\ pc = "idle"
  /\ hasBody = FALSE
  /\ wire = <<>>
  /\ body = <<>>
  /\ slicing = <<>>
  /\ pending = <<>>
  /\ buffer = <<>>
  /\ currentToolCall = None
  /\ currentToolUse = None
  /\ finalUsage = None
  /\ out = <<>>
  /\ released = FALSE
  /\ reads = 0
  /\ lastLine = ""
  /\ usageSeen = FALSE
  /\ wireArgs = None
  /\ single = None
  /\ yielded = FALSE
  /\ remaining = <<>>
  /\ releaseLockCalls = 0
  /\ error = None
  /\ requests = 0
  /\ call = [c \in Callers |-> NoCall]
  /\ config = [provider |-> adapter, model |-> None]
  /\ request = None
  /\ streams = None
  /\ sanitizer = None

\* The key sent with a request when one is configured.
ApiKeyText == "sk"

Header(name, value) == [name |-> name, value |-> value]

\* Fault seeded for C33: the key of the configuration is sent by every adapter
\* of the OpenAI family.
requestHeadersOfConfiguredKey(a, key, op) ==
  IF a = "anthropic"
  THEN {Header("Content-Type", "application/json"),
        Header("X-Api-Key", IF key THEN ApiKeyText ELSE ""),
        Header("anthropic-version", "2023-06-01")}
  ELSE IF a = "ollama" /\ op \in {"initialize", "validateConfig"}
  THEN {}
  ELSE {Header("Content-Type", "application/json")}
       \cup (IF key THEN {Header("Authorization", "Bearer " \o ApiKeyText)} ELSE {})

\* The headers of the request op issues: makeAnthropicRequest,
\* makeOpenAIRequest of OpenAIProvider (inherited by DeepSeekProvider and
\* OpenRouterProvider), of VLLMProvider and of OllamaProvider, and the bare
\* fetch of OllamaProvider.checkOllamaHealth.
requestHeaders(a, key, op) ==
  IF a = "anthropic"
  THEN {Header("Content-Type", "application/json"),
        Header("X-Api-Key", IF apiKey(a, key) THEN ApiKeyText ELSE ""),
        Header("anthropic-version", "2023-06-01")}
  ELSE IF a = "ollama"
  THEN (IF op \in {"initialize", "validateConfig"} THEN {}
        ELSE {Header("Content-Type", "application/json")})
  ELSE {Header("Content-Type", "application/json")}
       \cup (IF apiKey(a, key)
             THEN {Header("Authorization", "Bearer " \o ApiKeyText)} ELSE {})

\* The outcome of the method op on what fetch did.
Outcome(op, router, http) ==
  CASE op = "initialize" -> initialize(adapter, hasKey, http)
    [] op = "validateConfig" -> validateConfig(adapter, hasKey, http)
    [] op = "generateContent" -> generateContent(adapter, http)
    [] op = "generateContentStream" -> generateContentStream(adapter, http)
    [] op = "embedContent" -> embedContent(adapter, router, http)
    [] op = "getAvailableModels" -> getAvailableModels(http)
    [] op = "getServerInfo" -> getServerInfo(http)

\* The method reaches its `await fetch(...)`: it issues a request.
Issues(op, router) ==
  \E http \in FetchOutcomes : Outcome(op, router, http).requests > 0

\* After fetch resolved, the method awaits the body: response.text() of a
\* response that is not ok, response.json() of one that is. The probes read
\* response.ok only, and generateContentStream hands an ok response to its
\* parser.
ReadsBody(op, http) ==
  /\ http.rejects = None
  /\ op \notin {"initialize", "validateConfig"}
  /\ ok(http) => op # "generateContentStream"

\* The promise of caller c settles with the outcome r; http is what fetch
\* did, if asked. The generator a streaming call resolves to goes to the
\* consumer, who iterates the first one returned.
Called(c, op, router, http, r) ==
  /\ call' = [call EXCEPT ![c] =
                [pc |-> IF r.error # None THEN "failed" ELSE "done",
                 op |-> op, router |-> router,
                 http |-> IF r.requests > 0 THEN http ELSE None,
                 headers |-> IF r.requests > 0
                             THEN requestHeaders(adapter, hasKey, op) ELSE {},
                 value |-> r.value, error |-> r.error,
                 requests |-> r.requests]]
  /\ requests' = requests + r.requests - call[c].requests
  /\ IF op = "generateContentStream" /\ r.error = None /\ pc = "idle"
     THEN pc' = "start" /\ hasBody' = http[1].body
     ELSE UNCHANGED <<pc, hasBody>>
  /\ UNCHANGED <<vendor, wire, pending, buffer, currentToolCall,
                 currentToolUse, finalUsage, out, released, reads, lastLine,
                 usageSeen, wireArgs, body, slicing, single, yielded, remaining,
                 releaseLockCalls, error, adapter, hasKey, config, request,
                 streams, sanitizer>>

\* Caller c calls op: the method runs to its first await. When that is the
\* await of fetch, the request has been issued and the promise is pending;
\* a method that issues no request settles in the same turn. The callers are
\* named in the order of their calls.
Calls(c, op, router) ==
  /\ call[c].pc = "idle"
  /\ c = "second" => call["first"].pc # "idle"
  /\ IF Issues(op, router)
     THEN /\ call' = [call EXCEPT ![c] =
                        [NoCall EXCEPT !.pc = "fetch", !.op = op,
                                       !.router = router,
                                       !.headers = requestHeaders(adapter, hasKey, op),
                                       !.requests = 1]]
          /\ requests' = requests + 1
          /\ UNCHANGED <<vendor, wire, pending, buffer, currentToolCall,
                         currentToolUse, finalUsage, out, released, reads,
                         lastLine, usageSeen, wireArgs, body, slicing, single,
                         yielded, remaining, releaseLockCalls, error, adapter,
                         hasKey, config, request, streams, sanitizer, pc,
                         hasBody>>
     ELSE \E http \in FetchOutcomes :
            Called(c, op, router, None, Outcome(op, router, http))

CallInitialize ==
  \E c \in Callers, router \in BOOLEAN : Calls(c, "initialize", router)

CallValidateConfig ==
  \E c \in Callers : Calls(c, "validateConfig", FALSE)

CallGenerateContent ==
  \E c \in Callers, router \in BOOLEAN : Calls(c, "generateContent", router)

CallGenerateContentStream ==
  \E c \in Callers, router \in BOOLEAN : Calls(c, "generateContentStream", router)

CallEmbedContent ==
  \E c \in Callers, router \in BOOLEAN : Calls(c, "embedContent", router)

\* The two methods VLLMProvider adds.
CallGetAvailableModels ==
  /\ adapter = "vllm"
  /\ \E c \in Callers : Calls(c, "getAvailableModels", FALSE)

CallGetServerInfo ==
  /\ adapter = "vllm"
  /\ \E c \in Callers : Calls(c, "getServerInfo", FALSE)

\* fetch settles for a pending call: the method resumes after its await and
\* runs to its next await (of the body) or to its end.
FetchAnswers ==
  \E c \in Callers, http \in FetchOutcomes :
    /\ call[c].pc = "fetch"
    /\ IF ReadsBody(call[c].op, http)
       THEN /\ call' = [call EXCEPT ![c].pc = "body", ![c].http = Some(http)]
            /\ UNCHANGED <<vendor, wire, pending, buffer, currentToolCall,
                           currentToolUse, finalUsage, out, released, reads,
                           lastLine, usageSeen, wireArgs, body, slicing,
                           single, yielded, remaining, releaseLockCalls,
                           error, adapter, hasKey, config, request, streams,
                           sanitizer, pc, hasBody, requests>>
       ELSE Called(c, call[c].op, call[c].router, Some(http),
                   Outcome(call[c].op, call[c].router, http))

\* response.text() or response.json() settles: the method runs to its end.
BodyRead ==
  \E c \in Callers :
    /\ call[c].pc = "body"
    /\ Called(c, call[c].op, call[c].router, call[c].http,
              Outcome(call[c].op, call[c].router, call[c].http[1]))

NextCalls ==
  \/ CallInitialize
  \/ CallValidateConfig
  \/ CallGenerateContent
  \/ CallGenerateContentStream
  \/ CallEmbedContent
  \/ CallGetAvailableModels
  \/ CallGetServerInfo
  \/ FetchAnswers
  \/ BodyRead
  \/ Start
  \/ ReadDone
  \/ ReadFails

SpecCalls == InitCalls /\ [][NextCalls]_vars

----------------------------------------------------------------------------
\* Vocabulary of the properties.

FunctionCallsIn(parts) ==
  LET calls == SelectSeq(parts, LAMBDA p : p.functionCall # None)
  IN IF calls = <<>> THEN <<>>
     ELSE [i \in 1..Len(calls) |-> calls[i].functionCall[1]]

\* The function calls of a sequence of partial responses, in order.
RECURSIVE FunctionCalls(_)
FunctionCalls(responses) ==
  IF responses = <<>> THEN <<>>
  ELSE FunctionCallsIn(Head(responses).parts) \o FunctionCalls(Tail(responses))

\* The accumulated argument text of an open accumulator.
ToolText(t) == IF vendor = "openai" THEN t[1].arguments ELSE t[1].inputJson

IsDocument(text) == JSONparse(text, ArgumentDocuments) # None

\* The step is a read that delivered a line of the wire.
LineRead == pc = "reading" /\ reads' = reads + 1

CallId(v) == IF v = "openai" THEN "c1" ELSE "t1"

----------------------------------------------------------------------------
\* C1: for every body and every way of cutting it into chunks, the partial
\* responses emitted by the end of the stream are those emitted when the
\* whole body arrives as one chunk.
C1_ChunkingDoesNotMatter ==
  pc = "done" => out = readChunk(vendor, fresh, body).out

\* C2: reading a data line whose payload is not valid JSON changes nothing:
\* no partial response is emitted, the open tool-call accumulator, the usage,
\* the line buffer and the decoder are as before, and the parser goes on
\* reading (it neither ends nor fails).
C2_MalformedLineSkipped ==
  [][ (LineRead /\ lastLine' = "malformed")
      => /\ out' = out
         /\ currentToolCall' = currentToolCall
         /\ currentToolUse' = currentToolUse
         /\ finalUsage' = finalUsage
         /\ buffer' = buffer
         /\ pending' = pending
         /\ pc' = "reading" ]_vars

\* A malformed line was read after an emitted response, with a tool call open.
C2_Witness ==
  /\ pc = "reading"
  /\ lastLine = "malformed"
  /\ out # <<>>
  /\ tool # None

\* C3: when the stream of one tool call has ended, exactly one function call
\* has been emitted; it has the call's id and name, and its args are the JSON
\* value of the concatenation of the fragments, however the text was sliced.
C3_OneCallFromFragments ==
  pc = "done" =>
    FunctionCalls(out) =
      <<[id |-> Some(CallId(vendor)), name |-> Some("f"),
         args |-> JSONparse(Concat(slicing), ArgumentDocuments)[1]]>>

\* A stream whose argument text came in three fragments or more has ended.
C3_Witness ==
  /\ pc = "done"
  /\ Len(slicing) >= 3
  /\ Len(FunctionCalls(out)) = 1
  /\ FunctionCalls(out)[1].args = {<<"a", "1">>}

\* C4: a read that completes a tool call whose accumulated argument text is
\* no JSON document (or is empty) emits the call with args {} and the parser
\* neither fails nor stops (unless the line was the terminal sentinel); a
\* single-shot response that has a choice is converted without failure, and
\* each of its tool calls whose arguments are no JSON document gets args {}.
C4_BadArgumentsBecomeEmpty ==
  [][ /\ (/\ LineRead
          /\ tool # None
          /\ ~IsDocument(ToolText(tool))
          /\ Len(FunctionCalls(out')) > Len(FunctionCalls(out)))
         => /\ FunctionCalls(out')[Len(FunctionCalls(out)) + 1].args = EmptyObject
            /\ pc' # "failed"
            /\ (lastLine' # "done" => pc' = "reading")
      /\ (single = None /\ single' # None /\ single'[1].response.choice)
         => /\ single'[1].result # None
            /\ single'[1].response.tool_calls # None
               => \A i \in 1..Len(single'[1].response.tool_calls[1]) :
                    ~IsDocument(single'[1].response.tool_calls[1][i].function[1].arguments)
                    => FunctionCallsIn(single'[1].result[1].parts)[i].args = EmptyObject
    ]_vars

\* A tool call whose whole argument text was the fragment {"a" has been
\* completed by content_block_stop and emitted with args {}.
C4_Witness ==
  /\ vendor = "anthropic"
  /\ pc = "reading"
  /\ reads = 3
  /\ lastLine = "blockStop"
  /\ wireArgs = Some(SubSeq(ArgsObjectText, 1, 4))
  /\ Len(FunctionCalls(out)) = 1
  /\ FunctionCalls(out)[1].args = EmptyObject

\* C5: when the stream has ended normally with a tool-call accumulator open
\* whose id and name are known, the last partial response emitted carries the
\* function call of that accumulator.
C5_OpenCallFlushedAtEnd ==
  (pc = "done" /\ Ready(tool))
    => /\ out # <<>>
       /\ \E i \in 1..Len(out[Len(out)].parts) :
            /\ out[Len(out)].parts[i].functionCall # None
            /\ out[Len(out)].parts[i].functionCall[1].id = tool[1].id
            /\ out[Len(out)].parts[i].functionCall[1].name = tool[1].name

\* C6: a read of an event that carries a finish signal, with an accumulator
\* open whose id and name are known, emits one more function call and closes
\* the accumulator.
C6_FinishCompletesOpenCall ==
  [][ (LineRead /\ FinishOf(vendor, lastLine') # None /\ Ready(tool))
      => /\ Len(FunctionCalls(out')) = Len(FunctionCalls(out)) + 1
         /\ tool' = None ]_vars

\* C7: a read of an event that carries a finish reason emits a partial
\* response, and the last one emitted carries the mapped finish reason.
C7_FinishReasonEmitted ==
  [][ (LineRead /\ FinishOf(vendor, lastLine') # None)
      => /\ Len(out') > Len(out)
         /\ out'[Len(out')].finishReason
              = FinishReasonOf(vendor, FinishOf(vendor, lastLine')[1]) ]_vars

\* C8 as stated: the partial responses emitted by a read of an event that
\* carries no finish signal (and is not the terminal sentinel) have no finish
\* reason.
C8_NoFinishReasonWithoutSignal ==
  [][ (LineRead /\ FinishOf(vendor, lastLine') = None /\ lastLine' # "done")
      => \A i \in (Len(out) + 1)..Len(out') : out'[i].finishReason = None ]_vars

\* C8 amended: the partial responses emitted by a read of an event that
\* carries no finish signal all have the finish reason STOP; so a finish reason other than STOP comes only from an
\* event that carries a vendor finish or stop reason.
C8_StopWithoutSignal ==
  [][ (LineRead /\ FinishOf(vendor, lastLine') = None)
      => \A i \in (Len(out) + 1)..Len(out') : out'[i].finishReason = Some("STOP") ]_vars

\* A text delta was read and emitted with the finish reason STOP.
C8_Witness ==
  /\ pc = "reading"
  /\ lastLine = "text"
  /\ out # <<>>
  /\ out[Len(out)].parts[1].text = Some(<<"H", "i">>)
  /\ out[Len(out)].finishReason = Some("STOP")

\* C9: when the stream has ended and some event on the wire carried usage, a
\* partial response that was emitted carries usage.
C9_UsageNotLost ==
  (pc = "done" /\ usageSeen)
    => \E i \in 1..Len(out) : out[i].usageMetadata # None

\* C10: every function call emitted has an id and a name.
C10_CallsHaveIdAndName ==
  \A i \in 1..Len(FunctionCalls(out)) :
    Truthy(FunctionCalls(out)[i].id) /\ Truthy(FunctionCalls(out)[i].name)

----------------------------------------------------------------------------
\* Text deltas.

\* The new text a parsed event carries, if it is a text delta.
TextDeltaOf(v, e) ==
  IF v = "openai"
  THEN (IF e.choice /\ TruthyChars(e.content) THEN e.content ELSE None)
  ELSE (IF /\ e.type = "content_block_delta"
           /\ e.delta # None
           /\ TruthyChars(e.delta[1].text)
        THEN e.delta[1].text ELSE None)

\* The text-delta payloads of a sequence of lines as the vendor wrote them,
\* in wire order, up to the terminal sentinel.
RECURSIVE TextDeltas(_, _)
TextDeltas(v, lines) ==
  IF lines = <<>> THEN <<>>
  ELSE IF ~startsWith(Head(lines), DataPrefix) THEN TextDeltas(v, Tail(lines))
  ELSE IF trim(slice(Head(lines), 6)) = DoneSentinel THEN <<>>
  ELSE LET e == JSONparse(trim(slice(Head(lines), 6)), Documents(v))
       IN (IF e # None /\ TextDeltaOf(v, e[1]) # None
           THEN <<TextDeltaOf(v, e[1])[1]>> ELSE <<>>)
          \o TextDeltas(v, Tail(lines))

\* The text-delta payloads of a body: those of its newline-terminated lines.
WireTexts(v, bytes) ==
  LET segments == split(decodeBytes(bytes))
  IN TextDeltas(v, SubSeq(segments, 1, Len(segments) - 1))

\* The non-empty texts of the text parts of a sequence of partial responses.
RECURSIVE Texts(_)
Texts(responses) ==
  IF responses = <<>> THEN <<>>
  ELSE LET parts == SelectSeq(Head(responses).parts,
                              LAMBDA p : TruthyChars(p.text))
       IN (IF parts = <<>> THEN <<>>
           ELSE [i \in 1..Len(parts) |-> parts[i].text[1]])
          \o Texts(Tail(responses))

\* C11: when the stream has ended, the non-empty text parts emitted are the
\* text-delta payloads of the body, each once and in wire order, however
\* the body was cut into chunks.
C11_TextPartsAreTheTextDeltas ==
  pc = "done" => Texts(out) = WireTexts(vendor, body)

----------------------------------------------------------------------------
\* The ends of the sequence.

\* The generator acquired the reader (the call is the streaming one: no
\* generateContent request was issued) and the sequence has ended.
Ended ==
  hasBody /\ single = None /\ requests = 0 /\ pc \in {"done", "failed", "returned"}

\* C12: once the reader has been acquired, releaseLock has been called
\* exactly once when the sequence has ended, on every way it can end (the
\* sentinel, the reader reporting done, a rejected read, the consumer
\* stopping early), and not at all while the sequence is still going.
C12_ReaderReleasedOnEveryExit ==
  /\ Ended => (released /\ releaseLockCalls = 1)
  /\ pc = "reading" => (~released /\ releaseLockCalls = 0)

\* A read was rejected by the abort signal after a response was emitted.
C12_Witness ==
  /\ pc = "failed"
  /\ hasBody
  /\ error = Some(Rejection("AbortError"))
  /\ out # <<>>
  /\ released
  /\ releaseLockCalls = 1

\* C13: a read that fails emits nothing (no synthetic finish event, no
\* flushed tool call), surfaces the rejection itself to the consumer, and is
\* followed by no further read and no further partial response.
C13_ReadFailureEndsTheSequence ==
  [][ /\ (pc = "reading" /\ pc' = "failed")
         => /\ out' = out
            /\ reads' = reads
            /\ error' \in {Some(Rejection("TypeError")), Some(Rejection("AbortError"))}
      /\ pc = "failed" => (out' = out /\ reads' = reads /\ pc' = "failed")
    ]_vars

\* A read failed while a tool call with id and name was open, after a
\* response had been emitted.
C13_Witness ==
  /\ pc = "failed"
  /\ lastLine = "rejected"
  /\ Ready(tool)
  /\ out # <<>>
  /\ FunctionCalls(out) = <<>>

\* C14: when the response has no readable body, no read is made and no
\* partial response is emitted: the first step of the sequence fails.
C14_NoBodyFailsBeforeAnyRead ==
  ~hasBody => /\ out = <<>>
              /\ reads = 0
              /\ ~released
              /\ pc \in {"start", "failed"}
              /\ pc = "failed" => error # None

\* The stream of a response without body has failed.
C14_Witness ==
  /\ ~hasBody
  /\ pc = "failed"
  /\ error = Some(Error(<<"Response body is not readable">>))
  /\ out = <<>>

----------------------------------------------------------------------------
\* The calls on an adapter.

\* The promise of caller c has settled.
Settled(c) == call[c].pc \in {"done", "failed"}

\* The call op of caller c has been made and has settled.
Made(c, op) == Settled(c) /\ call[c].op = op

\* The message contains the pieces p.
Carries(message, p) ==
  \E i \in 1..(Len(message) - Len(p) + 1) : SubSeq(message, i, i + Len(p) - 1) = p

\* The call of caller c received an HTTP response that is not ok.
NotOkResponse(c) ==
  /\ call[c].http # None
  /\ call[c].http[1].rejects = None
  /\ ~ok(call[c].http[1])

\* No generator has been handed to a consumer by a call other than c's.
NoOtherStream(c) ==
  \A d \in Callers \ {c} :
    ~(call[d].op = "generateContentStream" /\ call[d].pc = "done")

\* C15: every failure that reaches the caller of initialize, generateContent,
\* generateContentStream (also while iterating the returned sequence) or
\* embedContent, on an adapter or on the router, is a
\* ProviderConfigurationError or a ProviderAPIError.
C15_FailuresAreOfTheTaxonomy ==
  /\ \A c \in Callers :
       (call[c].error # None
          /\ call[c].op \in {"initialize", "generateContent",
                             "generateContentStream", "embedContent"})
         => call[c].error[1].name \in {"ProviderConfigurationError", "ProviderAPIError"}
  /\ error # None
       => error[1].name \in {"ProviderConfigurationError", "ProviderAPIError"}

\* C16: every ProviderError thrown by the adapter built for vendor V carries
\* V as its provider.
C16_ErrorsNameTheVendor ==
  /\ \A c \in Callers :
       (call[c].error # None /\ call[c].error[1].provider # None)
         => call[c].error[1].provider = Some(adapter)
  /\ (error # None /\ error[1].provider # None) => error[1].provider = Some(adapter)

\* C17: a generate, stream or embedding call that receives a response that
\* is not 2xx rejects with a ProviderAPIError whose message carries the HTTP
\* status code, yields no value and no partial response, and has issued
\* exactly one HTTP request.
C17_NotOkResponseRejectsOnce ==
  \A c \in Callers :
    (NotOkResponse(c) /\ call[c].op \in {"generateContent", "generateContentStream",
                                         "embedContent"})
      => /\ call[c].pc \in {"body", "failed"}
         /\ call[c].value = None
         /\ call[c].requests = 1
         /\ NoOtherStream(c) => (pc = "idle" /\ out = <<>>)
         /\ Settled(c)
              => /\ call[c].error # None
                 /\ call[c].error[1].name = "ProviderAPIError"
                 /\ Carries(call[c].error[1].message,
                            <<"HTTP ">> \o String(call[c].http[1].status))

\* A streaming call through the router on the Anthropic adapter received a
\* 429 while another call was awaiting its fetch.
C17_Witness ==
  /\ Made("second", "generateContentStream")
  /\ adapter = "anthropic"
  /\ call["second"].router
  /\ NotOkResponse("second")
  /\ call["second"].http[1].status = 429
  /\ Carries(call["second"].error[1].message, <<"4", "2", "9">>)
  /\ call["second"].requests = 1
  /\ call["first"].pc = "fetch"
  /\ requests = 2

\* C18: initialize on an adapter of a key-requiring vendor that has no API
\* key rejects with a ProviderConfigurationError and issues no HTTP request.
C18_NoKeyFailsBeforeAnyRequest ==
  \A c \in Callers :
    (call[c].op = "initialize" /\ ~hasKey
       /\ adapter \in {"openai", "anthropic", "deepseek", "openrouter"})
      => /\ call[c].pc = "failed"
         /\ call[c].error # None
         /\ call[c].error[1].name = "ProviderConfigurationError"
         /\ call[c].requests = 0
         /\ call[c].headers = {}

\* initialize was called on the OpenRouter adapter without a key and no
\* request has been issued.
C18_Witness ==
  /\ Made("first", "initialize")
  /\ adapter = "openrouter"
  /\ ~hasKey
  /\ call["first"].error # None
  /\ call["first"].error[1].name = "ProviderConfigurationError"
  /\ requests = 0

\* C19: initialize does not resolve when the adapter's probe fails, that is
\* when validateConfig would have returned false on what fetch did.
C19_FailedProbeFailsInitialize ==
  \A c \in Callers :
    (Made(c, "initialize")
       /\ \A h \in (IF call[c].http # None THEN {call[c].http[1]} ELSE FetchOutcomes) :
            validateConfig(adapter, hasKey, h).value = Some(FALSE))
      => call[c].error # None

\* C20: validateConfig never rejects; it resolves to false when the probe
\* request is rejected (network failure, timeout) or answered by a response
\* that is not 2xx, and to true only when the probe succeeded or, without a
\* probe, when the required key is present.
C20_ValidateConfigNeverThrows ==
  \A c \in Callers :
    Made(c, "validateConfig")
      => /\ call[c].error = None
         /\ call[c].pc = "done"
         /\ call[c].value \in {Some(TRUE), Some(FALSE)}
         /\ (call[c].http # None /\ (call[c].http[1].rejects # None \/ ~ok(call[c].http[1])))
              => call[c].value = Some(FALSE)
         /\ call[c].value = Some(TRUE)
              => IF call[c].http # None
                 THEN call[c].http[1].rejects = None /\ ok(call[c].http[1])
                 ELSE hasKey \/ ~requiresApiKey(adapter)

\* The probe of the DeepSeek adapter timed out and validateConfig resolved
\* to false.
C20_Witness ==
  /\ Made("first", "validateConfig")
  /\ adapter = "deepseek"
  /\ call["first"].http # None
  /\ call["first"].http[1].rejects = Some(Rejection("AbortError"))
  /\ call["first"].value = Some(FALSE)
  /\ call["first"].error = None

----------------------------------------------------------------------------
\* NonGeminiContentGenerator's constructor and the adapters' constructors.

\* The vendor names a configuration can carry: the enum LLMProvider (the six
\* supported vendors and gemini) and a name outside it.
ProviderNames == LLMProvider \cup {"gemini", "mistral"}

\* config.model: absent, empty, or a model name.
ConfigModels == {None, Some(""), Some("cm")}

\* A ProviderConfig: provider, model and baseURL; undefinedKeys are the keys that
\* are present with the value undefined (an absent key and an undefined one
\* both read as undefined, but only the absent one lets a spread keep the
\* default under it).
ProviderConfig(p, model, baseURL, undefinedKeys) ==
  [provider |-> p, model |-> model, baseURL |-> baseURL,
   undefinedKeys |-> undefinedKeys]

CustomURL == "https://proxy.example/v1"

\* url.endsWith('/v1'), on the URLs of the model.
endsWithV1(url) ==
  url \in {CustomURL, "https://openrouter.ai/api/v1", "https://api.openai.com/v1",
           "http://localhost:11434/v1"}

\* The configurations: any provider name with any model and no base URL, and,
\* for the known vendors without a model, a base URL that is given, absent or
\* undefined beside a model that is absent or undefined.
ProviderConfigs ==
  {ProviderConfig(p, m, None, {}) : p \in ProviderNames, m \in ConfigModels}
  \cup {ProviderConfig(p, None, None, k)
          : p \in LLMProvider, k \in SUBSET {"baseURL", "model"}}
  \cup {ProviderConfig(p, None, Some(CustomURL), k)
          : p \in LLMProvider, k \in SUBSET {"model"}}

\* this.config of the adapter built from the configuration c:
\* DeepSeekProvider puts config.baseURL || 'https://api.deepseek.com' and
\* config.model || 'deepseek-chat'; OpenRouterProvider spreads the
\* configuration over its defaults, so a key that is present stays, even with
\* the value '' or undefined, and a key that is absent gets the default;
\* OllamaProvider and VLLMProvider put their own vendor and base URL; the
\* others keep the configuration.
adapterConfig(c) ==
  CASE c.provider = "deepseek" ->
         [c EXCEPT !.model = IF Truthy(c.model) THEN c.model
                             ELSE Some("deepseek-chat"),
                   !.baseURL = IF Truthy(c.baseURL) THEN c.baseURL
                               ELSE Some("https://api.deepseek.com"),
                   !.undefinedKeys = {}]
    [] c.provider = "openrouter" ->
         [c EXCEPT !.model = IF c.model = None /\ "model" \notin c.undefinedKeys
                             THEN Some("anthropic/claude-3.5-sonnet")
                             ELSE c.model,
                   !.baseURL = IF c.baseURL = None /\ "baseURL" \notin c.undefinedKeys
                               THEN Some("https://openrouter.ai/api/v1")
                               ELSE c.baseURL]
    [] c.provider = "ollama" ->
         [c EXCEPT !.provider = "ollama",
                   !.baseURL = IF Truthy(c.baseURL) THEN c.baseURL
                               ELSE Some("http://localhost:11434/v1"),
                   !.undefinedKeys = @ \ {"baseURL"}]
    [] c.provider = "vllm" ->
         [c EXCEPT !.provider = "vllm",
                   !.baseURL =
                     LET baseURL == IF Truthy(c.baseURL) THEN c.baseURL[1]
                                    ELSE "http://localhost:8000"
                     IN Some(IF endsWithV1(baseURL) THEN baseURL
                             ELSE baseURL \o "/v1"),
                   !.undefinedKeys = @ \ {"baseURL"}]
    [] OTHER -> c

\* this.baseURL: config.baseURL || 'https://api.openai.com/v1' in
\* OpenAIProvider's constructor, which its subclasses run on their own
\* configuration; config.baseURL || 'https://api.anthropic.com' in
\* AnthropicProvider's.
baseURL(a, cfg) ==
  IF Truthy(cfg.baseURL) THEN cfg.baseURL[1]
  ELSE IF a = "anthropic" THEN "https://api.anthropic.com"
  ELSE "https://api.openai.com/v1"

\* Fault seeded for C21: a name that is not known is served by OpenAIProvider.
createProviderDefaulting(c) ==
  IF c.provider = "gemini"
  THEN [config |-> None,
        error |-> Some(ProviderConfigurationError(
                         "gemini",
                         <<"Gemini uses code assist and is not supported here.">>))]
  ELSE [config |-> Some(adapterConfig(c)), error |-> None]

\* NonGeminiContentGenerator.createProvider: the adapter's configuration, or
\* the error thrown.
createProvider(c) ==
  CASE c.provider = "gemini" ->
         [config |-> None,
          error |-> Some(ProviderConfigurationError(
                           "gemini",
                           <<"Gemini uses code assist and is not supported here.">>))]
    [] c.provider \in LLMProvider ->
         [config |-> Some(adapterConfig(c)), error |-> None]
    [] OTHER ->
         [config |-> None,
          error |-> Some(ProviderConfigurationError(
                           c.provider, <<"Unknown provider: ", c.provider>>))]

----------------------------------------------------------------------------
\* Canonical request messages (Content) and their translation to the vendor
\* messages.  A Part has one of text, functionCall, functionResponse.

Part(text, functionCall, functionResponse) ==
  [text |-> text, functionCall |-> functionCall,
   functionResponse |-> functionResponse]

Text(t) == Part(Some(t), None, None)

FunctionCall(id, name, args) ==
  Part(None, Some([id |-> id, name |-> name, args |-> args]), None)

FunctionResponse(id, name, response) ==
  Part(None, None, Some([id |-> id, name |-> name, response |-> response]))

Content(role, parts) == [role |-> role, parts |-> parts]

\* JSON.stringify of an argument object: the text of ArgumentDocuments that
\* is its serialization.
JSONstringify(value) ==
  (CHOOSE d \in ArgumentDocuments : d[2] = value)[1]

\* The decimal digit of an index.
Digit(n) == <<"0", "1", "2", "3", "4", "5", "6", "7", "8", "9">>[n + 1]

\* `${Date.now()}` when the translation reaches part j of message m: the
\* clock has the same millisecond throughout the translation, or (ticks) it
\* has advanced between any two parts.
DateNow(m, j, ticks) ==
  IF ticks THEN "<now+" \o Digit(m) \o Digit(j) \o ">" ELSE "<now>"

\* `${Math.random().toString(16).slice(2)}` at part j of message m: no two
\* draws are equal.
MathRandom(m, j) == "<random" \o Digit(m) \o Digit(j) \o ">"

\* v || d for an optional object.
OrElse(o, d) == IF o = None THEN d ELSE o[1]

\* OpenAIMessage.
OpenAIMessage(role, content, tool_calls, tool_call_id) ==
  [role |-> role, content |-> content, tool_calls |-> tool_calls,
   tool_call_id |-> tool_call_id]

\* Fault seeded for C27: the arguments are not serialized.
RECURSIVE extractToolCallsFromPartsDroppingArgs(_, _, _, _)
extractToolCallsFromPartsDroppingArgs(parts, m, j, ticks) ==
  IF parts = <<>> THEN <<>>
  ELSE LET fc == Head(parts).functionCall
       IN (IF fc # None /\ Truthy(fc[1].name)
           THEN <<ToolCall(IF Truthy(fc[1].id) THEN fc[1].id[1]
                           ELSE "call_" \o DateNow(m, j, ticks)
                                  \o "_" \o MathRandom(m, j),
                           fc[1].name[1],
                           ArgsEmptyObjectText)>>
           ELSE <<>>)
          \o extractToolCallsFromPartsDroppingArgs(Tail(parts), m, j + 1, ticks)

\* OpenAIProvider.extractToolCallsFromParts.
RECURSIVE extractToolCallsFromParts(_, _, _, _)
extractToolCallsFromParts(parts, m, j, ticks) ==
  IF parts = <<>> THEN <<>>
  ELSE LET fc == Head(parts).functionCall
       IN (IF fc # None /\ Truthy(fc[1].name)
           THEN <<ToolCall(IF Truthy(fc[1].id) THEN fc[1].id[1]
                           ELSE "call_" \o DateNow(m, j, ticks)
                                  \o "_" \o MathRandom(m, j),
                           fc[1].name[1],
                           JSONstringify(OrElse(fc[1].args, EmptyObject)))>>
           ELSE <<>>)
          \o extractToolCallsFromParts(Tail(parts), m, j + 1, ticks)

\* OpenAIProvider.extractTextFromContent: the texts of the parts that are
\* truthy, joined.
RECURSIVE extractTextFromContent(_)
extractTextFromContent(parts) ==
  IF parts = <<>> THEN <<>>
  ELSE (IF TruthyChars(Head(parts).text) THEN Head(parts).text[1] ELSE <<>>)
       \o extractTextFromContent(Tail(parts))

\* content.parts.filter(part => 'functionResponse' in part), each made a
\* message of role tool.
RECURSIVE toolMessages(_, _, _, _)
toolMessages(parts, m, j, ticks) ==
  IF parts = <<>> THEN <<>>
  ELSE LET fr == Head(parts).functionResponse
       IN (IF fr # None
           THEN <<OpenAIMessage(
                    "tool",
                    Some(JSONstringify(OrElse(fr[1].response, EmptyObject))),
                    None,
                    Some(IF Truthy(fr[1].id) THEN fr[1].id[1]
                         ELSE "unknown-" \o DateNow(m, j, ticks)))>>
           ELSE <<>>)
          \o toolMessages(Tail(parts), m, j + 1, ticks)

\* The body of convertGeminiToOpenAIMessages' loop: the messages pushed for
\* one Content with role and parts.
openaiMessagesOf(content, m, ticks) ==
  LET toolCalls == extractToolCallsFromParts(content.parts, m, 1, ticks)
  IN IF toolCalls # <<>>
     THEN <<OpenAIMessage("assistant", None, Some(toolCalls), None)>>
     ELSE IF toolMessages(content.parts, m, 1, ticks) # <<>>
     THEN toolMessages(content.parts, m, 1, ticks)
     ELSE <<OpenAIMessage(IF content.role = "model" THEN "assistant"
                          ELSE content.role,
                          Some(extractTextFromContent(content.parts)),
                          None, None)>>

\* OpenAIProvider.convertGeminiToOpenAIMessages.
RECURSIVE convertGeminiToOpenAIMessages(_, _, _)
convertGeminiToOpenAIMessages(contents, m, ticks) ==
  IF contents = <<>> THEN <<>>
  ELSE openaiMessagesOf(Head(contents), m, ticks)
       \o convertGeminiToOpenAIMessages(Tail(contents), m + 1, ticks)

\* AnthropicMessage: content is an array of blocks, or (text) a string.
AnthropicMessage(role, content, text) ==
  [role |-> role, content |-> content, text |-> text]

\* A block of an AnthropicMessage's content.
MessageBlock(type, text, id, name, input, tool_use_id, content) ==
  [type |-> type, text |-> text, id |-> id, name |-> name, input |-> input,
   tool_use_id |-> tool_use_id, content |-> content]

TextBlock(t) == MessageBlock("text", Some(t), None, None, None, None, None)

\* part.text is a string and part.text.trim() is not empty.
HasText(part) == part.text # None /\ trim(part.text[1]) # <<>>

\* AnthropicProvider.extractTextFromContent on a Content with parts.
RECURSIVE anthropicExtractTextFromContent(_)
anthropicExtractTextFromContent(parts) ==
  IF parts = <<>> THEN <<>>
  ELSE (IF Head(parts).text # None /\ Len(Head(parts).text[1]) > 0
        THEN Head(parts).text[1] ELSE <<>>)
       \o anthropicExtractTextFromContent(Tail(parts))

\* The loop over the parts of a message of role model.
RECURSIVE assistantBlocks(_, _, _, _)
assistantBlocks(parts, m, j, ticks) ==
  IF parts = <<>> THEN <<>>
  ELSE LET part == Head(parts)
           fc == part.functionCall
       IN (IF HasText(part) THEN <<TextBlock(part.text[1])>>
           ELSE IF fc # None
           THEN <<MessageBlock(
                    "tool_use", None,
                    Some(IF Truthy(fc[1].id) THEN fc[1].id[1]
                         ELSE "tool_" \o DateNow(m, j, ticks)
                                \o "_" \o MathRandom(m, j)),
                    Some(IF Truthy(fc[1].name) THEN fc[1].name[1] ELSE ""),
                    Some(OrElse(fc[1].args, EmptyObject)),
                    None, None)>>
           ELSE <<>>)
          \o assistantBlocks(Tail(parts), m, j + 1, ticks)

\* The loop over the parts of a message of role user.
RECURSIVE userBlocks(_, _, _, _)
userBlocks(parts, m, j, ticks) ==
  IF parts = <<>> THEN <<>>
  ELSE LET part == Head(parts)
           fr == part.functionResponse
       IN (IF HasText(part) THEN <<TextBlock(part.text[1])>>
           ELSE IF fr # None
           THEN <<MessageBlock(
                    "tool_result", None, None, None, None,
                    Some(IF Truthy(fr[1].id) THEN fr[1].id[1]
                         ELSE IF Truthy(fr[1].name) THEN fr[1].name[1]
                         ELSE "tool_" \o DateNow(m, j, ticks)),
                    Some(JSONstringify(OrElse(fr[1].response, EmptyObject))))>>
           ELSE <<>>)
          \o userBlocks(Tail(parts), m, j + 1, ticks)

\* The function convertGeminiToAnthropicMessages maps over the contents: the
\* message made of one Content with a role, or none (null, filtered out).
anthropicMessagesOf(content, m, ticks) ==
  LET extractedText == anthropicExtractTextFromContent(content.parts)
  IN CASE content.role = "model" ->
            IF assistantBlocks(content.parts, m, 1, ticks) # <<>>
            THEN <<AnthropicMessage("assistant", assistantBlocks(content.parts, m, 1, ticks),
                                    None)>>
            ELSE <<>>
       [] content.role = "user" ->
            LET messageContent ==
                  IF userBlocks(content.parts, m, 1, ticks) # <<>>
                  THEN userBlocks(content.parts, m, 1, ticks)
                  ELSE IF trim(extractedText) # <<>>
                  THEN <<TextBlock(extractedText)>>
                  ELSE <<>>
            IN IF messageContent # <<>>
               THEN <<AnthropicMessage("user", messageContent, None)>>
               ELSE <<>>
       [] OTHER ->
            IF trim(extractedText) # <<>>
            THEN <<AnthropicMessage(content.role, <<>>, Some(extractedText))>>
            ELSE <<>>

\* AnthropicProvider.convertGeminiToAnthropicMessages.
RECURSIVE convertGeminiToAnthropicMessages(_, _, _)
convertGeminiToAnthropicMessages(contents, m, ticks) ==
  IF contents = <<>> THEN <<>>
  ELSE anthropicMessagesOf(Head(contents), m, ticks)
       \o convertGeminiToAnthropicMessages(Tail(contents), m + 1, ticks)

----------------------------------------------------------------------------
\* The vendor request of generateContent and generateContentStream.

\* Fault seeded for C23: the request's model is sent as it is.
vendorModelOfRequestOnly(a, cfg, model) ==
  IF model # None THEN model[1] ELSE ""

\* request.model || this.config.model || 'gpt-4o' (OpenAIProvider and its
\* subclasses), ... || 'claude-3-sonnet-20240229' (AnthropicProvider).
vendorModel(a, cfg, model) ==
  IF Truthy(model) THEN model[1]
  ELSE IF Truthy(cfg.model) THEN cfg.model[1]
  ELSE IF a = "anthropic" THEN "claude-3-sonnet-20240229"
  ELSE "gpt-4o"

\* request.config of a generation request: temperature (in tenths),
\* maxOutputTokens and stopSequences, each optional.
GenerationConfig(temperature, maxOutputTokens, stopSequences) ==
  [temperature |-> temperature, maxOutputTokens |-> maxOutputTokens,
   stopSequences |-> stopSequences]

\* 0.7, in tenths
DefaultTemperature == 7

\* protected defaultMaxTokens = 4096
defaultMaxTokens == 4096

\* v || d for an optional number.
TruthyNumber(o) == o # None /\ o[1] # 0

\* temperature: request.config?.temperature || 0.7
temperatureOf(generation) ==
  IF TruthyNumber(generation.temperature) THEN generation.temperature
  ELSE Some(DefaultTemperature)

\* max_tokens: request.config?.maxOutputTokens || undefined (OpenAI),
\* request.config?.maxOutputTokens || this.defaultMaxTokens (Anthropic)
maxTokensOf(a, generation) ==
  IF TruthyNumber(generation.maxOutputTokens) THEN generation.maxOutputTokens
  ELSE IF a = "anthropic" THEN Some(defaultMaxTokens)
  ELSE None

\* openaiRequest / anthropicRequest: the fields the claims are about.
vendorRequest(a, cfg, model, contents, generation, stream, ticks) ==
  [model |-> vendorModel(a, cfg, model),
   messages |-> IF a = "anthropic"
                THEN convertGeminiToAnthropicMessages(contents, 1, ticks)
                ELSE convertGeminiToOpenAIMessages(contents, 1, ticks),
   baseURL |-> baseURL(a, cfg),
   temperature |-> temperatureOf(generation),
   max_tokens |-> maxTokensOf(a, generation),
   stop |-> generation.stopSequences,
   stream |-> stream]

----------------------------------------------------------------------------
\* AnthropicProvider.convertAnthropicToGeminiResponse (single-shot responses).

RECURSIVE anthropicParts(_)
anthropicParts(content) ==
  IF content = <<>> THEN <<>>
  ELSE LET block == Head(content)
       IN (IF block.type = "text" /\ TruthyChars(block.text)
           THEN <<TextPart(block.text[1])>>
           ELSE IF block.type = "tool_use" /\ Truthy(block.name)
                   /\ block.input # None
           THEN <<FunctionCallPart(block.id, block.name, block.input[1])>>
           ELSE <<>>)
          \o anthropicParts(Tail(content))

convertAnthropicToGeminiResponse(response) ==
  Some(Response(anthropicParts(response.content),
                Some(anthropicConvertFinishReason(response.stop_reason)),
                Some(0),
                Some(anthropicUsageMetadata(response.usage))))

----------------------------------------------------------------------------
\* The inputs of the requests: canonical messages and vendor responses.

MaxParts == 2

ArgsObject == {<<"a", "1">>}

\* The parts a canonical message is made of: empty, blank and plain text,
\* function calls with and without an id, function responses with and
\* without an id.
Parts ==
  { Text(<<>>), Text(<<" ">>), Text(<<"H", "i">>),
    FunctionCall(Some("c1"), Some("f"), Some(ArgsObject)),
    FunctionCall(None, Some("g"), Some(EmptyObject)),
    FunctionResponse(Some("c1"), Some("f"), Some(ArgsObject)),
    FunctionResponse(Some("c2"), Some("g"), None),
    FunctionResponse(None, Some("f"), Some(EmptyObject)) }

PartLists == UNION {[1..n -> Parts] : n \in 0..MaxParts}

\* request.contents: one canonical message of role user or model.
Contents == {<<Content(role, parts)>> : role \in {"user", "model"}, parts \in PartLists}

PlainPrompt == <<Content("user", <<Text(<<"H", "i">>)>>)>>

\* request.model: empty or a model name.
RequestModels == {Some(""), Some("rm")}

NoGeneration == GenerationConfig(None, None, None)

\* request.config: no temperature, 0, 0.8; no maximum, 1000 tokens; no stop
\* sequences, none, one.
GenerationConfigs ==
  {GenerationConfig(t, m, st) :
     t \in {None, Some(0), Some(8)},
     m \in {None, Some(1000)},
     st \in {None, Some(<<>>), Some(<<"STOP">>)}}

\* The generation requests: any model and message or history without a
\* generation config, and the plain question asked twice under any generation config
\* (the message translation does not read request.config, nor the generation
\* fields the messages).
ConfiguredPrompt ==
  <<Content("user", <<Text(<<"H", "i">>), Text(<<"H", "i">>)>>)>>

\* A history of two messages: the model calls f, the user answers with the
\* function response, both with the call's id or both without an id.
Histories ==
  {<<Content("model", <<FunctionCall(id, Some("f"), Some(ArgsObject))>>),
     Content("user", <<FunctionResponse(id, Some("f"), Some(ArgsObject))>>)>>
     : id \in {None, Some("c1")}}

GenerationRequests ==
  {[model |-> model, contents |-> contents, config |-> NoGeneration]
     : model \in RequestModels, contents \in Contents \cup Histories}
  \cup {[model |-> Some("rm"), contents |-> ConfiguredPrompt, config |-> g]
          : g \in GenerationConfigs}

\* finish_reason of a single-shot OpenAI response: the codes
\* convertFinishReason knows and one it does not.
OpenAIFinishReasons ==
  {"stop", "length", "content_filter", "tool_calls", "function_call"}

\* stop_reason of a single-shot Anthropic response: the same.
AnthropicStopReasons ==
  {"end_turn", "max_tokens", "stop_sequence", "tool_use", "refusal"}

OpenAIResponses ==
  [choice : BOOLEAN, content : {None, Some(<<>>), Some(<<"H", "i">>)},
   tool_calls : {None, Some(<<>>),
                 Some(<<ToolCall("c1", "f", ArgsObjectText)>>),
                 Some(<<ToolCall("c1", "f", ArgsObjectText),
                        ToolCall("c2", "g", ArgsEmptyObjectText)>>)},
   finish_reason : OpenAIFinishReasons, usage : {None, Some(Usage)}]

ToolUseBlock(id, name, input) ==
  MessageBlock("tool_use", None, Some(id), Some(name), Some(input), None, None)

ResponseBlocks ==
  { TextBlock(<<"H", "i">>), TextBlock(<<>>),
    ToolUseBlock("t1", "f", ArgsObject), ToolUseBlock("t2", "g", EmptyObject) }

AnthropicResponses ==
  [content : UNION {[1..n -> ResponseBlocks] : n \in 0..2},
   stop_reason : AnthropicStopReasons, usage : {AnthropicUsage}]

\* The tool calls of the vendor messages, in order.
RECURSIVE ToolCallsOf(_)
ToolCallsOf(messages) ==
  IF messages = <<>> THEN <<>>
  ELSE OrElse(Head(messages).tool_calls, <<>>) \o ToolCallsOf(Tail(messages))

\* The tool_use blocks of the vendor messages, in order.
RECURSIVE ToolUsesOf(_)
ToolUsesOf(messages) ==
  IF messages = <<>> THEN <<>>
  ELSE SelectSeq(Head(messages).content, LAMBDA b : b.type = "tool_use")
       \o ToolUsesOf(Tail(messages))

\* The vendor answering with the tool invocations the request carries.
EchoResponse(v, req) ==
  IF v = "openai"
  THEN [choice |-> TRUE, content |-> None,
        tool_calls |-> IF ToolCallsOf(req.messages) = <<>> THEN None
                       ELSE Some(ToolCallsOf(req.messages)),
        finish_reason |-> "tool_calls", usage |-> Some(Usage)]
  ELSE [content |-> ToolUsesOf(req.messages), stop_reason |-> "tool_use",
        usage |-> AnthropicUsage]

\* The responses a vendor gives to a request: any response to the plain
\* prompt, the echo of its tool invocations to any other.
VendorResponses(v, contents, req) ==
  IF contents = PlainPrompt
  THEN IF v = "openai" THEN OpenAIResponses ELSE AnthropicResponses
  ELSE {EchoResponse(v, req)}

\* The conversion of a single-shot response: None when it throws.
convertResponse(v, response) ==
  IF v = "openai" THEN convertOpenAIToGeminiResponse(response)
  ELSE convertAnthropicToGeminiResponse(response)

----------------------------------------------------------------------------
\* countTokens: an estimate from the length of the text, without a request.

\* An element of request.contents that is a bare string.
BareString(t) == [string |-> t]

\* typeof content === 'string'
IsString(content) == "string" \in DOMAIN content

\* Array.prototype.join(' ') over strings.
RECURSIVE joinSpace(_)
joinSpace(texts) ==
  IF texts = <<>> THEN <<>>
  ELSE IF Len(texts) = 1 THEN texts[1]
  ELSE texts[1] \o <<" ">> \o joinSpace(Tail(texts))

\* OpenAIProvider.extractTextFromContents
extractTextFromContents(contents) ==
  joinSpace([i \in 1..Len(contents) |->
               IF IsString(contents[i]) THEN contents[i].string
               ELSE extractTextFromContent(contents[i].parts)])

\* for (const part of content.parts) if (typeof part.text === 'string')
\*   totalText += part.text
RECURSIVE anthropicTextOfParts(_)
anthropicTextOfParts(parts) ==
  IF parts = <<>> THEN <<>>
  ELSE OrElse(Head(parts).text, <<>>) \o anthropicTextOfParts(Tail(parts))

\* The loop of AnthropicProvider.countTokens over the contents.
RECURSIVE anthropicTotalText(_)
anthropicTotalText(contents) ==
  IF contents = <<>> THEN <<>>
  ELSE (IF IsString(Head(contents)) THEN Head(contents).string
        ELSE anthropicTextOfParts(Head(contents).parts))
       \o anthropicTotalText(Tail(contents))

CharsPerToken == 4

\* Math.ceil(n / 4)
estimatedTokens(n) == (n + CharsPerToken - 1) \div CharsPerToken

\* countTokens of AnthropicProvider and of OpenAIProvider and its subclasses.
countTokens(a, contents) ==
  [totalTokens |->
     estimatedTokens(Len(IF a = "anthropic" THEN anthropicTotalText(contents)
                         ELSE extractTextFromContents(contents)))]

\* request.contents of countTokens: bare strings and messages, up to MaxParts
\* of them.
CountItems ==
  { BareString(<<>>), BareString(<<"a", "b", "c", "d">>),
    Content("user", <<Text(<<"H", "i">>)>>),
    Content("model", <<Text(<<"H", "i">>),
                       FunctionCall(Some("c1"), Some("f"), Some(ArgsObject))>>) }

CountContents == UNION {[1..n -> CountItems] : n \in 1..MaxParts}

----------------------------------------------------------------------------
\* Construction of the router, then one generateContent or
\* generateContentStream on it.

InitRequests ==
  /\ config \in ProviderConfigs
  /\ adapter = "none"
  /\ vendor = "openai"
  /\ pc = "new"
  /\ hasKey = TRUE
  /\ hasBody = FALSE
  /\ wire = <<>>
  /\ body = <<>>
  /\ slicing = <<>>
  /\ pending = <<>>
  /\ buffer = <<>>
  /\ currentToolCall = None
  /\ currentToolUse = None
  /\ finalUsage = None
  /\ out = <<>>
  /\ released = FALSE
  /\ reads = 0
  /\ lastLine = ""
  /\ usageSeen = FALSE
  /\ wireArgs = None
  /\ single = None
  /\ yielded = FALSE
  /\ remaining = <<>>
  /\ releaseLockCalls = 0
  /\ error = None
  /\ requests = 0
  /\ call = None
  /\ request = None
  /\ streams = None
  /\ sanitizer = None

\* new NonGeminiContentGenerator(config).
Construct ==
  /\ pc = "new"
  /\ LET r == createProvider(config)
     IN /\ pc' = IF r.error # None THEN "failed" ELSE "idle"
        /\ error' = r.error
        /\ adapter' = IF r.config # None THEN r.config[1].provider ELSE adapter
        /\ vendor' = IF r.config # None THEN ParserOf(r.config[1].provider)
                     ELSE vendor
  /\ UNCHANGED <<hasBody, wire, pending, buffer, currentToolCall,
                 currentToolUse, finalUsage, out, released, reads, lastLine,
                 usageSeen, wireArgs, body, slicing, single, yielded, remaining,
                 releaseLockCalls, hasKey, requests, call, config, request,
                 streams, sanitizer>>

\* generateContent, up to its `await` of fetch: the vendor request is built
\* and issued.
Generate ==
  /\ pc = "idle"
  /\ \E req \in GenerationRequests, ticks \in BOOLEAN :
       request' = Some([model |-> req.model, contents |-> req.contents,
                        config |-> req.config,
                        body |-> vendorRequest(adapter, adapterConfig(config),
                                               req.model, req.contents,
                                               req.config, FALSE, ticks)])
  /\ requests' = requests + 1
  /\ pc' = "awaiting"
  /\ UNCHANGED <<vendor, hasBody, wire, pending, buffer, currentToolCall,
                 currentToolUse, finalUsage, out, released, reads, lastLine,
                 usageSeen, wireArgs, body, slicing, single, yielded, remaining,
                 releaseLockCalls, error, adapter, hasKey, call, config,
                 streams, sanitizer>>

\* generateContentStream, up to its `await` of fetch: the vendor request is
\* built and issued.
GenerateStream ==
  /\ pc = "idle"
  /\ \E req \in GenerationRequests, ticks \in BOOLEAN :
       request' = Some([model |-> req.model, contents |-> req.contents,
                        config |-> req.config,
                        body |-> vendorRequest(adapter, adapterConfig(config),
                                               req.model, req.contents,
                                               req.config, TRUE, ticks)])
  /\ requests' = requests + 1
  /\ pc' = "awaiting"
  /\ UNCHANGED <<vendor, hasBody, wire, pending, buffer, currentToolCall,
                 currentToolUse, finalUsage, out, released, reads, lastLine,
                 usageSeen, wireArgs, body, slicing, single, yielded, remaining,
                 releaseLockCalls, error, adapter, hasKey, call, config,
                 streams, sanitizer>>

\* The await of fetch settles.  A rejection is wrapped by the catch block;
\* with a response that is not ok the method awaits response.text(), with an
\* ok one generateContent awaits response.json() and generateContentStream
\* returns the parser's generator (the stream ends without events).
ResponseArrives ==
  /\ pc = "awaiting"
  /\ \E http \in FetchOutcomes :
       LET r == IF request[1].body.stream
                THEN generateContentStream(adapter, http)
                ELSE generateContent(adapter, http)
       IN /\ call' = Some([op |-> IF request[1].body.stream
                                  THEN "generateContentStream"
                                  ELSE "generateContent",
                           http |-> Some(http)])
          /\ pc' = IF http.rejects # None THEN "failed"
                   ELSE IF ok(http) /\ request[1].body.stream THEN "start"
                   ELSE "body"
          /\ error' = IF http.rejects # None THEN r.error ELSE error
          /\ hasBody' = IF http.rejects = None /\ ok(http) /\ request[1].body.stream
                        THEN http.body ELSE hasBody
  /\ UNCHANGED <<vendor, wire, pending, buffer, currentToolCall,
                 currentToolUse, finalUsage, out, released, reads, lastLine,
                 usageSeen, wireArgs, body, slicing, single, yielded, remaining,
                 releaseLockCalls, adapter, hasKey, requests,
                 config, request, streams, sanitizer>>

\* The await of the body settles: the throw of a response that is not ok and
\* the rejection of response.json() are wrapped by the catch block;
\* otherwise generateContent converts the vendor's response.
GenerateSettles ==
  /\ pc = "body"
  /\ LET r == IF request[1].body.stream
              THEN generateContentStream(adapter, call[1].http[1])
              ELSE generateContent(adapter, call[1].http[1])
     IN IF r.error # None
        THEN /\ pc' = "failed"
             /\ error' = r.error
             /\ single' = single
        ELSE \E response \in VendorResponses(vendor, request[1].contents,
                                            request[1].body) :
               \E result \in {convertResponse(vendor, response)} :
                 /\ single' = Some([response |-> response, result |-> result])
                 /\ pc' = IF result = None THEN "failed" ELSE "done"
                 /\ error' = IF result = None
                             THEN Some(ProviderAPIError(
                                    provider(adapter),
                                    <<"Generation failed: ",
                                      "Invalid response format from OpenAI">>,
                                    Some(Error(<<"Invalid response format from OpenAI">>))))
                             ELSE None
  /\ UNCHANGED <<vendor, hasBody, wire, pending, buffer, currentToolCall,
                 currentToolUse, finalUsage, out, released, reads, lastLine,
                 usageSeen, wireArgs, body, slicing, yielded, remaining,
                 releaseLockCalls, adapter, hasKey, requests, call, config,
                 request, streams, sanitizer>>

\* countTokens on the router, which delegates to the adapter.
CountTokens ==
  /\ pc = "idle"
  /\ \E contents \in CountContents :
       call' = Some([op |-> "countTokens", router |-> TRUE, http |-> None,
                     headers |-> {}, contents |-> contents,
                     value |-> Some(countTokens(adapter, contents))])
  /\ pc' = "done"
  /\ UNCHANGED <<vendor, hasBody, wire, pending, buffer, currentToolCall,
                 currentToolUse, finalUsage, out, released, reads, lastLine,
                 usageSeen, wireArgs, body, slicing, single, yielded, remaining,
                 releaseLockCalls, error, adapter, hasKey, requests, config,
                 request,
                 streams, sanitizer>>

NextRequests ==
  \/ Construct
  \/ Generate
  \/ GenerateStream
  \/ ResponseArrives
  \/ GenerateSettles
  \/ CountTokens
  \/ Start
  \/ ReadDone

SpecRequests == InitRequests /\ [][NextRequests]_vars

----------------------------------------------------------------------------
\* The construction and the requests: vocabulary.

\* The canonical message of the last request, and the vendor messages made
\* of it.
Message == request[1].contents[1]
Messages == request[1].body.messages

\* The parts of the message that carry a function call / a function response.
CallParts == SelectSeq(Message.parts, LAMBDA p : p.functionCall # None)
ResponseParts == SelectSeq(Message.parts, LAMBDA p : p.functionResponse # None)

\* The text content of the vendor messages, joined: content strings
\* (OpenAI), text blocks (Anthropic).
RECURSIVE VendorText(_, _)
VendorText(v, messages) ==
  IF messages = <<>> THEN <<>>
  ELSE (IF v = "openai" THEN OrElse(Head(messages).content, <<>>)
        ELSE Concat([i \in 1..Len(Head(messages).content) |->
                       OrElse(Head(messages).content[i].text, <<>>)]))
       \o VendorText(v, Tail(messages))

\* The vendor messages with empty or whitespace-only content.
BlankMessages(v, messages) ==
  {i \in 1..Len(messages) :
     IF v = "openai"
     THEN messages[i].tool_calls = None
          /\ trim(OrElse(messages[i].content, <<>>)) = <<>>
     ELSE trim(VendorText(v, <<messages[i]>>)) = <<>>
          /\ \A j \in 1..Len(messages[i].content) :
               messages[i].content[j].type = "text"}

\* The ids of the vendor's tool-result entries, in order: tool_call_id of
\* the messages of role tool (OpenAI), tool_use_id of the tool_result
\* blocks (Anthropic).
RECURSIVE ToolResultIds(_, _)
ToolResultIds(v, messages) ==
  IF messages = <<>> THEN <<>>
  ELSE (IF v = "openai"
        THEN (IF Head(messages).role = "tool"
              THEN <<Head(messages).tool_call_id>> ELSE <<>>)
        ELSE LET results == SelectSeq(Head(messages).content,
                                      LAMBDA b : b.type = "tool_result")
             IN [i \in 1..Len(results) |-> results[i].tool_use_id])
       \o ToolResultIds(v, Tail(messages))

\* The number of tool-call entries of the vendor messages.
ToolCallEntries(v, messages) ==
  IF v = "openai" THEN Len(ToolCallsOf(messages)) ELSE Len(ToolUsesOf(messages))

\* The vendor's response of the last generateContent and its conversion.
VendorResponse == single[1].response
Converted == single[1].result[1]

\* The text of the vendor response: message.content (OpenAI), the text
\* blocks joined (Anthropic).
ResponseText(v, response) ==
  IF v = "openai" THEN OrElse(response.content, <<>>)
  ELSE Concat([i \in 1..Len(response.content) |->
                 OrElse(response.content[i].text, <<>>)])

\* The <<id, name>> of the tool invocations of the vendor response, in order.
Invocations(v, response) ==
  IF v = "openai"
  THEN LET calls == OrElse(response.tool_calls, <<>>)
       IN [i \in 1..Len(calls) |-> <<calls[i].id, calls[i].function[1].name>>]
  ELSE LET uses == SelectSeq(response.content, LAMBDA b : b.type = "tool_use")
       IN [i \in 1..Len(uses) |-> <<uses[i].id[1], uses[i].name[1]>>]

\* The text of the parts of a canonical response, joined.
PartsText(parts) ==
  Concat([i \in 1..Len(parts) |-> OrElse(parts[i].text, <<>>)])

\* The vendor's finish code and the canonical reason the mapping names for it.
FinishCode(v, response) ==
  IF v = "openai" THEN response.finish_reason ELSE response.stop_reason

CanonicalReason(code) ==
  CASE code \in {"stop", "tool_calls", "end_turn", "stop_sequence", "tool_use"}
         -> "STOP"
    [] code \in {"length", "max_tokens"} -> "MAX_TOKENS"
    [] code = "content_filter" -> "SAFETY"
    [] OTHER -> "OTHER"

\* C21: constructing the router with the gemini vendor or with a name that
\* is not a vendor fails in the constructor with a ProviderConfigurationError
\* and leaves no router on which an operation was or can be called; with one
\* of the six supported vendors it yields an adapter configured for the
\* vendor that was asked for.
C21_ConstructionFailsOrYieldsTheVendor ==
  pc # "new"
    => IF config.provider \in LLMProvider
       THEN adapter = config.provider
       ELSE /\ pc = "failed"
            /\ error # None
            /\ error[1].name = "ProviderConfigurationError"
            /\ adapter = "none"
            /\ request = None /\ single = None /\ call = None /\ requests = 0

C21_Witness ==
  /\ pc = "failed"
  /\ config.provider = "mistral"
  /\ error = Some(ProviderConfigurationError(
                    "mistral", <<"Unknown provider: ", "mistral">>))

\* C22: an embedding request made through the router on an adapter that does
\* not support embeddings rejects with a ProviderAPIError that names the
\* adapter's vendor, and no HTTP request is issued.
C22_UnsupportedEmbeddingIsACapabilityError ==
  \A c \in Callers :
    (call[c].op = "embedContent" /\ call[c].router /\ ~supportsEmbeddings(adapter))
      => /\ call[c].pc = "failed"
         /\ call[c].requests = 0
         /\ call[c].error # None
         /\ call[c].error[1].name = "ProviderAPIError"
         /\ call[c].error[1].provider = Some(adapter)

\* C23: the model of the vendor request of generateContent and of
\* generateContentStream is the request's model when that is not empty,
\* else the adapter's configured model when that is not empty, else the
\* hardcoded fallback; it is never empty.
C23_ModelIsResolvedAndNeverEmpty ==
  request # None
    => LET sent == request[1].body.model
           asked == request[1].model
           configured == adapterConfig(config).model
       IN /\ sent # ""
          /\ Truthy(asked) => sent = asked[1]
          /\ (~Truthy(asked) /\ Truthy(configured)) => sent = configured[1]
          /\ (~Truthy(asked) /\ ~Truthy(configured))
               => sent \in {"gpt-4o", "claude-3-sonnet-20240229"}

C23_Witness ==
  /\ request # None
  /\ request[1].body.stream
  /\ ~Truthy(request[1].model)
  /\ ~Truthy(adapterConfig(config).model)
  /\ request[1].body.model = "gpt-4o"
  /\ adapter = "openrouter"

\* C24: a canonical message whose parts are all empty or whitespace-only
\* text yields no vendor message, so the vendor messages hold no message
\* with empty or whitespace-only content.
C24_BlankMessagesAreDropped ==
  (/\ request # None
   /\ Message.parts # <<>>
   /\ \A i \in 1..Len(Message.parts) :
        Message.parts[i].text # None /\ trim(Message.parts[i].text[1]) = <<>>)
    => /\ Messages = <<>>
       /\ BlankMessages(vendor, Messages) = {}

\* C25: a canonical model message with function-call parts and non-empty
\* text parts yields vendor messages that carry each of those texts and one
\* tool-call entry per function-call part.
C25_TextBesideFunctionCallsIsKept ==
  (/\ request # None
   /\ Message.role = "model"
   /\ CallParts # <<>>
   /\ \E i \in 1..Len(Message.parts) : HasText(Message.parts[i]))
    => /\ \A i \in 1..Len(Message.parts) :
            HasText(Message.parts[i])
              => Carries(VendorText(vendor, Messages), Message.parts[i].text[1])
       /\ ToolCallEntries(vendor, Messages) = Len(CallParts)

\* C26: a canonical user message with k function-response parts yields
\* exactly k tool-result entries (messages of role tool, tool_result
\* blocks), in the order of the parts, the entry of a part that has an id
\* carrying that id.
C26_OneToolResultPerFunctionResponse ==
  (request # None /\ Message.role = "user")
    => LET ids == ToolResultIds(vendor, Messages)
       IN /\ Len(ids) = Len(ResponseParts)
          /\ \A j \in 1..Len(ResponseParts) :
               Truthy(ResponseParts[j].functionResponse[1].id)
                 => ids[j] = ResponseParts[j].functionResponse[1].id

\* C27: a function-call part with id, name and args, translated to the
\* vendor's tool call and, answered back by the vendor, translated by the
\* response translator, is a function-call part with the same id, the same
\* name and the same args.
C27_FunctionCallRoundTrip ==
  (/\ request # None /\ single # None /\ single[1].result # None
   /\ Message.role = "model"
   /\ VendorResponse = EchoResponse(vendor, request[1].body))
    => LET back == FunctionCallsIn(Converted.parts)
       IN /\ Len(back) = Len(CallParts)
          /\ \A j \in 1..Len(CallParts) :
               LET fc == CallParts[j].functionCall[1]
               IN (Truthy(fc.id) /\ Truthy(fc.name) /\ fc.args # None)
                    => back[j] = [id |-> fc.id, name |-> fc.name,
                                  args |-> fc.args[1]]

C27_Witness ==
  /\ request # None /\ single # None /\ single[1].result # None
  /\ vendor = "openai"
  /\ Message = Content("model",
                       <<FunctionCall(Some("c1"), Some("f"), Some(ArgsObject))>>)
  /\ VendorResponse = EchoResponse(vendor, request[1].body)
  /\ FunctionCallsIn(Converted.parts)
       = <<[id |-> Some("c1"), name |-> Some("f"), args |-> ArgsObject]>>

\* C28: the candidate of every canonical response converted from a
\* single-shot vendor response has at least one part; a vendor response with
\* no text and no tool invocation gives exactly one part, an empty text.
C28_AtLeastOnePart ==
  (single # None /\ single[1].result # None)
    => /\ Len(Converted.parts) >= 1
       /\ (ResponseText(vendor, VendorResponse) = <<>>
           /\ Invocations(vendor, VendorResponse) = <<>>)
            => Converted.parts = <<TextPart(<<>>)>>

\* C29: a successful single-shot generateContent gives one candidate of
\* index 0 whose parts carry the vendor's text and one function-call part
\* per tool invocation of the vendor, in the vendor's order, the text
\* before the function calls, and usage totals taken from the vendor's usage.
C29_SingleShotCarriesTextCallsAndUsage ==
  (single # None /\ single[1].result # None /\ request # None)
    => /\ Converted.index = Some(0)
       /\ PartsText(Converted.parts) = ResponseText(vendor, VendorResponse)
       /\ LET calls == FunctionCallsIn(Converted.parts)
              asked == Invocations(vendor, VendorResponse)
          IN /\ Len(calls) = Len(asked)
             /\ \A j \in 1..Len(asked) :
                  calls[j].id = Some(asked[j][1])
                  /\ calls[j].name = Some(asked[j][2])
       /\ \A i, j \in 1..Len(Converted.parts) :
            (i < j /\ Converted.parts[i].functionCall # None)
              => Converted.parts[j].text = None
       /\ vendor = "openai"
            => \A i \in 2..Len(Converted.parts) : Converted.parts[i].text = None
       /\ Converted.usageMetadata # None
       /\ Converted.usageMetadata[1].totalTokenCount
            = IF vendor = "openai"
              THEN IF VendorResponse.usage # None
                   THEN VendorResponse.usage[1].total_tokens ELSE 0
              ELSE VendorResponse.usage.input_tokens
                   + VendorResponse.usage.output_tokens

\* C30: the finish reason of a single-shot response is the canonical reason
\* of the vendor's code: STOP for the stop and tool-call codes, MAX_TOKENS
\* for the length limit, SAFETY for the content filter, OTHER for any code
\* that is not recognized.
C30_FinishReasonIsTotal ==
  (single # None /\ single[1].result # None /\ request # None)
    => Converted.finishReason
         = Some(CanonicalReason(FinishCode(vendor, VendorResponse)))

----------------------------------------------------------------------------
\* The tool-call accumulator over the stream.

\* The line completes the open tool call in the vendor's protocol: a finish
\* reason, the terminal sentinel or the start of the next call (OpenAI),
\* content_block_stop (Anthropic).
CompletionSignal(v, name) ==
  \/ v = "openai" /\ (StartsToolCall(v, name) \/ name = "done" \/ Truthy(FinishOf(v, name)))
  \/ v = "anthropic" /\ name = "blockStop"

\* The argument fragment of a line, empty when it carries none.
FragmentText(v, name) == OrElse(FragmentOf(v, name), <<>>)

\* C37: once a tool call's accumulator is open, a line that is no completion
\* signal for it (an empty delta, an empty-content or usage-only chunk, a
\* malformed line, a comment, a text delta) leaves the accumulator open with
\* the line's argument fragment, if any, appended to its text, and the
\* function call emitted at the completion signal carries the arguments
\* accumulated by then.
C37_FragmentsReachTheEmittedCall ==
  [][ /\ (LineRead /\ tool # None /\ ~CompletionSignal(vendor, lastLine'))
         => /\ tool' # None
            /\ ToolText(tool') = ToolText(tool) \o FragmentText(vendor, lastLine')
            /\ Len(FunctionCalls(out')) = Len(FunctionCalls(out))
      /\ (LineRead /\ Ready(tool) /\ CompletionSignal(vendor, lastLine'))
         => /\ Len(FunctionCalls(out')) > Len(FunctionCalls(out))
            /\ FunctionCalls(out')[Len(FunctionCalls(out)) + 1].args
                 = (IF IsDocument(ToolText(tool))
                    THEN JSONparse(ToolText(tool), ArgumentDocuments)[1]
                    ELSE EmptyObject)
    ]_vars

\* The number of function-call parts the step adds to the output.
NewCalls == Len(FunctionCalls(out')) - Len(FunctionCalls(out))

\* C38: a step emits at most one function-call part, only when an accumulator
\* is open before it, and with that accumulator's id and name; the generator
\* is then suspended at the yield of that call, and when the consumer resumes
\* it and it goes on reading, the emitted call's accumulator has been closed
\* (unless the line itself started the next call), so that no later finish
\* signal or sentinel finds it open and emits it again.
C38_EachCallEmittedAtMostOnce ==
  [][ /\ NewCalls <= (IF tool # None THEN 1 ELSE 0)
      /\ NewCalls = 1 =>
           /\ LineRead
           /\ FunctionCalls(out')[Len(FunctionCalls(out')) ].id = tool[1].id
           /\ FunctionCalls(out')[Len(FunctionCalls(out')) ].name = tool[1].name
           /\ yielded'
      /\ (/\ pc = "reading" /\ yielded /\ pc' = "reading"
          /\ FunctionCallsIn(out[Len(out)].parts) # <<>>
          /\ ~StartsToolCall(vendor, lastLine))
         => (~yielded' /\ tool' = None)
    ]_vars

\* A tool call was flushed by a finish signal and the stream went on to its
\* sentinel or to a second finish signal without the call being emitted again.
C38_Witness ==
  /\ Len(FunctionCalls(out)) = 1
  /\ reads >= 3
  /\ lastLine \in {"done", "finishTool", "blockStop", "messageDelta"}
  /\ tool = None

----------------------------------------------------------------------------
\* The end of the stream.

\* What the parser emits for the text left in its line buffer, taken as a
\* line.
LeftInBuffer ==
  processLine(vendor, [tool |-> tool, finalUsage |-> finalUsage,
                       out |-> <<>>, returned |-> FALSE], buffer).out

\* C40: when the reader has signalled done, no event is left unprocessed in
\* the line buffer: a `data: ` line that arrived without its trailing newline
\* has been processed and what it yields has been emitted.
C40_NoEventLeftInTheBuffer ==
  (pc = "done" /\ startsWith(buffer, DataPrefix)) => LeftInBuffer = <<>>

----------------------------------------------------------------------------
\* Credentials on the wire.

\* The values of the header name in the request of the call of caller c.
HeaderValues(c, name) == {h.value : h \in {x \in call[c].headers : x.name = name}}

\* C33: in every request an adapter issues, the adapters of the OpenAI family
\* (OpenAI, DeepSeek, OpenRouter, vLLM) send Authorization: Bearer <key>
\* exactly when a non-empty key is in effect; Ollama sends no Authorization
\* header whatever key is configured; Anthropic sends the key in X-Api-Key
\* beside anthropic-version and sends no Authorization header.
C33_KeyTravelsInTheVendorsHeader ==
  \A c \in Callers :
    call[c].requests > 0 =>
      CASE adapter = "anthropic" ->
             /\ HeaderValues(c, "Authorization") = {}
             /\ HeaderValues(c, "X-Api-Key") = {IF hasKey THEN ApiKeyText ELSE ""}
             /\ HeaderValues(c, "anthropic-version") # {}
        [] adapter = "ollama" -> HeaderValues(c, "Authorization") = {}
        [] OTHER ->
             /\ HeaderValues(c, "Authorization")
                  = (IF hasKey THEN {"Bearer " \o ApiKeyText} ELSE {})
             /\ HeaderValues(c, "X-Api-Key") = {}

\* An Ollama adapter configured with a key has issued a generation request
\* that fetch has not answered yet.
C33_Witness ==
  /\ call["first"].pc = "fetch"
  /\ call["first"].requests = 1
  /\ call["first"].op = "generateContent"
  /\ adapter = "ollama"
  /\ hasKey

----------------------------------------------------------------------------
\* Token estimates.

\* The number of characters of the text parts and bare strings of contents.
RECURSIVE TextLength(_)
TextLength(contents) ==
  IF contents = <<>> THEN 0
  ELSE (IF IsString(Head(contents)) THEN Len(Head(contents).string)
        ELSE Len(Concat([i \in 1..Len(Head(contents).parts) |->
                           OrElse(Head(contents).parts[i].text, <<>>)])))
       + TextLength(Tail(contents))

\* C34: countTokens resolves, without an HTTP request, to ceil(L / 4) where L
\* is the number of characters of the text parts and bare strings of the
\* contents, on every adapter alike.
C34_TokensAreAQuarterOfTheLength ==
  (call # None /\ call[1].op = "countTokens") =>
    /\ requests = 0
    /\ error = None
    /\ call[1].value[1].totalTokens * CharsPerToken >= TextLength(call[1].contents)
    /\ (call[1].value[1].totalTokens - 1) * CharsPerToken < TextLength(call[1].contents)
    /\ call[1].value = Some(countTokens("anthropic", call[1].contents))
    /\ call[1].value = Some(countTokens("openai", call[1].contents))

----------------------------------------------------------------------------
\* The generation config.

\* C35: the vendor request of generateContent and of generateContentStream
\* carries the temperature, the maximum number of output tokens and the stop
\* sequences the request specifies, whatever their values, the temperature 0
\* included.
C35_GenerationConfigPassedThrough ==
  request # None =>
    LET asked == request[1].config
        sent == request[1].body
    IN /\ asked.temperature # None => sent.temperature = asked.temperature
       /\ asked.maxOutputTokens # None => sent.max_tokens = asked.maxOutputTokens
       /\ asked.stopSequences # None => sent.stop = asked.stopSequences

----------------------------------------------------------------------------
\* Vendor defaults.

VendorDefaultURL(a) ==
  IF a = "openrouter" THEN "https://openrouter.ai/api/v1"
  ELSE "https://api.deepseek.com"

VendorDefaultModel(a) ==
  IF a = "openrouter" THEN "anthropic/claude-3.5-sonnet" ELSE "deepseek-chat"

\* C36: the requests of an OpenRouter or DeepSeek adapter built from a
\* configuration without a base URL (the key absent, or present with the
\* value undefined) go to the vendor's default base URL, and with no model in
\* the configuration nor in the request their model is the vendor's default.
C36_VendorDefaultsWhenUnconfigured ==
  (request # None /\ adapter \in {"openrouter", "deepseek"}) =>
    /\ config.baseURL = None => request[1].body.baseURL = VendorDefaultURL(adapter)
    /\ (config.model = None /\ ~Truthy(request[1].model))
         => request[1].body.model = VendorDefaultModel(adapter)

----------------------------------------------------------------------------
\* Tool results and the tool uses they answer.

\* Every function-response part of the history follows, in an earlier
\* message, a function-call part of the same name and id.
PairedHistory(contents) ==
  \A i \in 1..Len(contents) : \A k \in 1..Len(contents[i].parts) :
    LET fr == contents[i].parts[k].functionResponse IN
    fr # None =>
      \E j \in 1..(i - 1) : \E l \in 1..Len(contents[j].parts) :
        LET fc == contents[j].parts[l].functionCall IN
        fc # None /\ fc[1].name = fr[1].name /\ fc[1].id = fr[1].id

\* The ids of the tool_use blocks of the messages before the i-th.
ToolUseIdsBefore(messages, i) ==
  UNION {{messages[j].content[l].id : l \in {x \in 1..Len(messages[j].content) :
                                          messages[j].content[x].type = "tool_use"}}
           : j \in 1..(i - 1)}

\* C39: in the Anthropic translation of a history in which every function
\* response follows the function call it answers, the tool_use_id of every
\* tool_result block is the id of a tool_use block of an earlier message,
\* whether the parts carry ids or not.
C39_ToolResultsAnswerAToolUse ==
  (request # None /\ adapter = "anthropic" /\ PairedHistory(request[1].contents)) =>
    \A i \in 1..Len(Messages) : \A l \in 1..Len(Messages[i].content) :
      Messages[i].content[l].type = "tool_result"
        => Messages[i].content[l].tool_use_id \in ToolUseIdsBefore(Messages, i)

----------------------------------------------------------------------------
\* Streams parsed concurrently on one adapter instance.  Each call of
\* parseOpenAIStream / parseAnthropicStream is a generator with its own
\* reader, decoder, buffer, accumulator and usage (let / const in the
\* generator's body); the steps of the generators interleave at every await
\* and yield.

StreamIds == {"s1", "s2"}

\* Reads of one stream.
MaxStreamReads == 2

\* The chunks the readers deliver on these streams, by name.
StreamChunks == {"head", "tail", "text"}

\* The bytes of a chunk.  head: an event that carries usage, the start of a
\* tool call and the first half of its first argument fragment.  tail: the
\* rest of that fragment, the second fragment, the completion of the call
\* and (Anthropic) the stop reason of the message.  text: a text delta.
StreamBytes(v, name) ==
  LET fragLine == LineBytes(Wire(v)["fragA"])
      cut == Len(fragLine) \div 2
  IN CASE name = "head" ->
            LineBytes(Wire(v)[IF v = "openai" THEN "textUsage" ELSE "messageStop"])
            \o LineBytes(Wire(v)["start"])
            \o SubSeq(fragLine, 1, cut)
       [] name = "tail" ->
            SubSeq(fragLine, cut + 1, Len(fragLine))
            \o LineBytes(Wire(v)["fragB"])
            \o (IF v = "openai" THEN LineBytes(Wire(v)["finishTool"])
                ELSE LineBytes(Wire(v)["blockStop"])
                     \o LineBytes(Wire(v)["messageDelta"]))
       [] name = "text" -> LineBytes(Wire(v)["text"])

\* The bytes of every chunk, by vendor and name.
ChunkBytes ==
  [v \in Vendors |-> [name \in StreamChunks |-> StreamBytes(v, name)]]

\* Fault seeded for C31: the accumulator is a field of the adapter, the one
\* the first call set up.
accumulatorOnInstance(all, i) == all.calls["s1"].state.tool

\* let currentToolCall / let currentToolUse of the generator of stream i.
accumulator(all, i) == all.calls[i].state.tool

\* The state of one generator before its first read: the parser's locals,
\* and where the generator is suspended.
freshStream ==
  [pending |-> <<>>, buffer |-> <<>>, tool |-> None, finalUsage |-> None,
   out |-> <<>>, returned |-> FALSE, yielded |-> FALSE, remaining |-> <<>>]

InitStreams ==
  /\ vendor \in Vendors
  /\ adapter = vendor
  /\ hasKey = TRUE
  /\ pc = "reading"
  /\ hasBody = TRUE
  /\ wire = <<>>
  /\ body = <<>>
  /\ slicing = <<>>
  /\ pending = <<>>
  /\ buffer = <<>>
  /\ currentToolCall = None
  /\ currentToolUse = None
  /\ finalUsage = None
  /\ out = <<>>
  /\ released = FALSE
  /\ reads = 0
  /\ lastLine = ""
  /\ usageSeen = FALSE
  /\ wireArgs = None
  /\ single = None
  /\ yielded = FALSE
  /\ remaining = <<>>
  /\ releaseLockCalls = 0
  /\ error = None
  /\ requests = 0
  /\ call = None
  /\ config = [provider |-> adapter, model |-> None]
  /\ request = None
  /\ sanitizer = None
  /\ streams = [calls |-> [i \in StreamIds |->
                            [chunks |-> <<>>, state |-> freshStream,
                             open |-> TRUE, released |-> FALSE,
                             releaseLockCalls |-> 0]]]

\* One read of stream i: a chunk arrives and the generator runs up to its
\* first yield, to its return through finally { reader.releaseLock() }, or
\* to its next read when no line of the chunk yields.
StreamRead ==
  /\ pc = "reading"
  /\ \E i \in StreamIds, name \in StreamChunks :
       /\ streams.calls[i].open
       /\ ~streams.calls[i].state.yielded
       /\ Len(streams.calls[i].chunks) < MaxStreamReads
       /\ \E s \in {readUntilYield(vendor,
                                   [streams.calls[i].state EXCEPT !.tool = accumulator(streams, i)],
                                   ChunkBytes[vendor][name])} :
            streams' = [calls |-> [streams.calls EXCEPT ![i] =
                                     [chunks |-> Append(@.chunks, name),
                                      state |-> s,
                                      open |-> ~s.returned,
                                      released |-> s.returned,
                                      releaseLockCalls |->
                                        IF s.returned THEN @.releaseLockCalls + 1
                                        ELSE @.releaseLockCalls]]]
  /\ UNCHANGED <<vendor, hasBody, pc, wire, pending, buffer, currentToolCall,
                 currentToolUse, finalUsage, out, released, reads, lastLine,
                 usageSeen, wireArgs, body, slicing, single, yielded, remaining,
                 releaseLockCalls, error, adapter, hasKey, requests, call,
                 config, request, sanitizer>>

\* The consumer of stream i asks for the next value while its generator is
\* suspended at a yield: the generator finishes the iteration of the line and
\* runs up to its next yield, return or read.
StreamResume ==
  /\ pc = "reading"
  /\ \E i \in StreamIds :
       /\ streams.calls[i].open
       /\ streams.calls[i].state.yielded
       /\ \E g \in {afterYield(vendor,
                                [tool |-> accumulator(streams, i),
                                 finalUsage |-> streams.calls[i].state.finalUsage,
                                 out |-> streams.calls[i].state.out,
                                 returned |-> FALSE],
                                Head(streams.calls[i].state.remaining))} :
            \E r \in {IF g.returned
                      THEN [g |-> g, yielded |-> FALSE, remaining |-> <<>>]
                      ELSE runLines(vendor, g, Tail(streams.calls[i].state.remaining))} :
               streams' = [calls |-> [streams.calls EXCEPT ![i] =
                                        [chunks |-> @.chunks,
                                         state |-> [@.state EXCEPT
                                                      !.tool = r.g.tool,
                                                      !.finalUsage = r.g.finalUsage,
                                                      !.out = r.g.out,
                                                      !.returned = r.g.returned,
                                                      !.yielded = r.yielded,
                                                      !.remaining = r.remaining],
                                         open |-> ~r.g.returned,
                                         released |-> r.g.returned,
                                         releaseLockCalls |->
                                           IF r.g.returned
                                           THEN @.releaseLockCalls + 1
                                           ELSE @.releaseLockCalls]]]
  /\ UNCHANGED <<vendor, hasBody, pc, wire, pending, buffer, currentToolCall,
                 currentToolUse, finalUsage, out, released, reads, lastLine,
                 usageSeen, wireArgs, body, slicing, single, yielded, remaining,
                 releaseLockCalls, error, adapter, hasKey, requests, call,
                 config, request, sanitizer>>

\* The reader of stream i reports done: break, then finally
\* { reader.releaseLock() }.
StreamDone ==
  /\ pc = "reading"
  /\ \E i \in StreamIds :
       /\ streams.calls[i].open
       /\ ~streams.calls[i].state.yielded
       /\ streams' = [streams EXCEPT
                        !.calls[i].open = FALSE,
                        !.calls[i].released = TRUE,
                        !.calls[i].releaseLockCalls = @ + 1]
  /\ UNCHANGED <<vendor, hasBody, pc, wire, pending, buffer, currentToolCall,
                 currentToolUse, finalUsage, out, released, reads, lastLine,
                 usageSeen, wireArgs, body, slicing, single, yielded, remaining,
                 releaseLockCalls, error, adapter, hasKey, requests, call,
                 config, request, sanitizer>>

NextStreams == StreamRead \/ StreamResume \/ StreamDone

SpecStreams == InitStreams /\ [][NextStreams]_vars

\* The parser's state after a generator that runs alone, from a fresh start,
\* has read the chunks and has been resumed until its next read.
RECURSIVE Alone(_, _)
Alone(v, chunks) ==
  IF chunks = <<>> THEN fresh
  ELSE readChunk(v, Alone(v, SubSeq(chunks, 1, Len(chunks) - 1)),
                 ChunkBytes[v][chunks[Len(chunks)]])

\* The lone runs of every sequence of chunks a stream can have read.
AloneRuns ==
  [v \in Vendors |->
     [c \in UNION {[1..n -> StreamChunks] : n \in 0..MaxStreamReads} |->
        Alone(v, c)]]

\* The parser's locals in the state of a generator.
ParserState(s) ==
  [pending |-> s.pending, buffer |-> s.buffer, tool |-> s.tool,
   finalUsage |-> s.finalUsage, out |-> s.out, returned |-> s.returned]

\* The sequence p is the beginning of the sequence q.
IsPrefix(p, q) == Len(p) <= Len(q) /\ SubSeq(q, 1, Len(p)) = p

----------------------------------------------------------------------------
\* sanitizeParameters (tool-registry): the traversal of a tool parameter
\* schema that strips the format values the vendor does not know.  A schema
\* is a graph of objects: a node has a type, a format, properties (objects
\* have them) and items (arrays have them); properties and items refer to
\* nodes, possibly to ancestors or to the node itself.

\* Nodes of a schema graph.
MaxNodes == 3

Nodes == 1..MaxNodes

SchemaNode(type, format, properties, items) ==
  [type |-> type, format |-> format, properties |-> properties, items |-> items]

\* The formats kept on a string.
SupportedFormats == {"enum", "date-time"}

\* The schemas: every node is a string with a format, a number with a format,
\* an object with any nodes as properties or an array of any node.
NodeShapes ==
  {SchemaNode("STRING", Some(f), {}, None) : f \in {"uuid", "date-time", "enum"}}
  \cup {SchemaNode("NUMBER", Some("uuid"), {}, None)}
  \cup {SchemaNode("OBJECT", None, ps, None) : ps \in SUBSET Nodes}
  \cup {SchemaNode("ARRAY", None, {}, Some(n)) : n \in Nodes}

Heaps == [Nodes -> NodeShapes]

\* The elements of a set of nodes, in ascending order.
RECURSIVE Ascending(_)
Ascending(S) ==
  IF S = {} THEN <<>> ELSE <<Min(S)>> \o Ascending(S \ {Min(S)})

\* Fault seeded for C32: the traversal does not enter the items of an array.
childrenOfPropertiesOnly(node) == Ascending(node.properties)

\* The schemas sanitizeParameters recurses into from a node: its items and
\* the values of its properties.
children(node) ==
  (IF node.items # None THEN <<node.items[1]>> ELSE <<>>)
  \o Ascending(node.properties)

\* What the visit of a node does to it: an unsupported format of a string is
\* removed.
sanitized(node) ==
  IF /\ node.type = "STRING"
     /\ node.format # None
     /\ node.format[1] \notin SupportedFormats
  THEN [node EXCEPT !.format = None]
  ELSE node

InitSanitize ==
  /\ vendor = "openai"
  /\ adapter = vendor
  /\ hasKey = TRUE
  /\ pc = "idle"
  /\ hasBody = FALSE
  /\ wire = <<>>
  /\ body = <<>>
  /\ slicing = <<>>
  /\ pending = <<>>
  /\ buffer = <<>>
  /\ currentToolCall = None
  /\ currentToolUse = None
  /\ finalUsage = None
  /\ out = <<>>
  /\ released = FALSE
  /\ reads = 0
  /\ lastLine = ""
  /\ usageSeen = FALSE
  /\ wireArgs = None
  /\ single = None
  /\ yielded = FALSE
  /\ remaining = <<>>
  /\ releaseLockCalls = 0
  /\ error = None
  /\ requests = 0
  /\ call = None
  /\ config = [provider |-> adapter, model |-> None]
  /\ request = None
  /\ streams = None
  /\ \E heap \in Heaps, root \in {None, Some(1)} :
       /\ root = None => heap = [n \in Nodes |-> SchemaNode("STRING", Some("uuid"), {}, None)]
       /\ sanitizer = [input |-> heap, heap |-> heap, root |-> root,
                       stack |-> <<>>, visited |-> {}, pc |-> "ready"]

\* sanitizeParameters(schema): nothing to do for an undefined schema, else the
\* traversal starts at the schema with no object visited.
SanitizeCall ==
  /\ sanitizer.pc = "ready"
  /\ sanitizer' = [sanitizer EXCEPT
                     !.pc = IF sanitizer.root = None THEN "done" ELSE "running",
                     !.stack = IF sanitizer.root = None THEN <<>>
                               ELSE <<sanitizer.root[1]>>]
  /\ UNCHANGED <<vendor, hasBody, pc, wire, pending, buffer, currentToolCall,
                 currentToolUse, finalUsage, out, released, reads, lastLine,
                 usageSeen, wireArgs, body, slicing, single, yielded, remaining,
                 releaseLockCalls, error, adapter, hasKey, requests, call,
                 config, request, streams>>

\* One call of the recursion: an object already visited is left at once; a
\* new one is marked, sanitized, and its children are entered in turn.
SanitizeVisit ==
  /\ sanitizer.pc = "running"
  /\ sanitizer.stack # <<>>
  /\ LET n == Head(sanitizer.stack) IN
     sanitizer' =
       IF n \in sanitizer.visited
       THEN [sanitizer EXCEPT !.stack = Tail(@)]
       ELSE [sanitizer EXCEPT
               !.visited = @ \cup {n},
               !.heap[n] = sanitized(@),
               !.stack = children(sanitizer.heap[n]) \o Tail(@)]
  /\ UNCHANGED <<vendor, hasBody, pc, wire, pending, buffer, currentToolCall,
                 currentToolUse, finalUsage, out, released, reads, lastLine,
                 usageSeen, wireArgs, body, slicing, single, yielded, remaining,
                 releaseLockCalls, error, adapter, hasKey, requests, call,
                 config, request, streams>>

\* The outermost call returns.
SanitizeReturn ==
  /\ sanitizer.pc = "running"
  /\ sanitizer.stack = <<>>
  /\ sanitizer' = [sanitizer EXCEPT !.pc = "done"]
  /\ UNCHANGED <<vendor, hasBody, pc, wire, pending, buffer, currentToolCall,
                 currentToolUse, finalUsage, out, released, reads, lastLine,
                 usageSeen, wireArgs, body, slicing, single, yielded, remaining,
                 releaseLockCalls, error, adapter, hasKey, requests, call,
                 config, request, streams>>

NextSanitize == SanitizeCall \/ SanitizeVisit \/ SanitizeReturn

SpecSanitize == InitSanitize /\ [][NextSanitize]_vars

\* The nodes of the graph heap reachable from the nodes of S.
RECURSIVE ReachableFrom(_, _)
ReachableFrom(heap, S) ==
  LET next == S \cup UNION {heap[n].properties : n \in S}
                \cup UNION {IF heap[n].items # None THEN {heap[n].items[1]}
                            ELSE {} : n \in S}
  IN IF next = S THEN S ELSE ReachableFrom(heap, next)

\* What is left of the traversal: the objects not yet visited, then the calls
\* not yet returned.
Rank(s) ==
  Cardinality(Nodes \ s.visited) * (MaxNodes + 2) + Len(s.stack)

\* The schema after the call: of the objects reachable from the schema, the
\* strings with an unsupported format have lost it and all else is as given;
\* the objects not reachable are as given.
Sanitized(s) ==
  LET reached == IF s.root = None THEN {}
                 ELSE ReachableFrom(s.input, {s.root[1]})
  IN \A n \in Nodes :
       s.heap[n] =
         IF /\ n \in reached
            /\ s.input[n].type = "STRING"
            /\ s.input[n].format # None
            /\ s.input[n].format[1] \notin SupportedFormats
         THEN [s.input[n] EXCEPT !.format = None]
         ELSE s.input[n]

\* C32: sanitizeParameters terminates on every schema, undefined and cyclic
\* ones included: every step of the traversal leaves strictly less to do
\* (objects to visit, then calls to return from); when it has returned, every
\* reachable string with an unsupported format has lost its format and the
\* supported formats, the other types and the shape of the graph are
\* unchanged.
C32_SanitizerTerminatesAndStrips ==
  [][ /\ (sanitizer.pc = "running" /\ sanitizer'.pc = "running")
           => Rank(sanitizer') < Rank(sanitizer)
      /\ sanitizer'.pc = "done" => Sanitized(sanitizer')
    ]_vars

\* The call has returned on a schema that contains itself through the items
\* of an array and holds a string with an unsupported format.
C32_Witness ==
  /\ sanitizer.pc = "done"
  /\ sanitizer.input[1].type = "OBJECT"
  /\ \E a \in sanitizer.input[1].properties :
       /\ sanitizer.input[a].type = "ARRAY"
       /\ sanitizer.input[a].items = Some(1)
  /\ \E n \in sanitizer.input[1].properties :
       /\ sanitizer.input[n].format = Some("uuid")
       /\ sanitizer.input[n].type = "STRING"
       /\ sanitizer.heap[n].format = None

====
